---- MODULE Spec2Model ----
(***************************************************************************)
(* ShadowTrade: the agent workflow (parse -> validate -> encrypt -> poll   *)
(* -> decrypt -> re-check risk -> execute -> receipt) and the trading      *)
(* dashboard that runs it in the background for each submitted trade,      *)
(* together with the x402 payment client (pay) and the economic reasoning  *)
(* engine (engine), which the workflow does not call.                      *)
(*                                                                         *)
(* Conventions.  A TypeScript null / undefined is the empty tuple Null and *)
(* a present value v is the one-element tuple <<v>> (Some(v)).  Time is    *)
(* counted in minutes, so Date.now() + expires_in_minutes * 60_000 is      *)
(* now + expires_in_minutes.  Random draws (uuid, iv, executor salt) are   *)
(* taken from the counter entropy, which never repeats a value.            *)
(***************************************************************************)
EXTENDS Integers, Sequences, FiniteSets, TLC

VARIABLES config, now, entropy, wf, bots, trades, ret, pay, engine, engineLog, fn, codec

vars == <<config, now, entropy, wf, bots, trades, ret, pay, engine, engineLog, fn, codec>>

\* ------------------------------------------------------------------ bounds
MaxActions == 2
MaxTime == 2
MaxTrades == 2
MaxCalls == 2
MaxLedgerCalls == 1
MaxView == 1
MaxDecisions == 4

\* ------------------------------------------------- schema constants (zod)
MinSlippageBps == 1
MaxSlippageBps == 500

\* ------------------------------------------------------------ HTTP statuses
PaymentRequired == 402

Null == <<>>
Some(v) == <<v>>

\* --------------------------------------------------------- input universes
Pairs == {"ETH/USDC", "DOGE/USDC"}
PairInputs == Pairs \cup {""}
Amounts == {0, 200, 400}
Slippages == {0, 50, 100, 501}
Expiries == {0, 1, 2}
Prompts == {"Buy ETH if it dips below 3k"}

ConditionTypes ==
  {"price_below", "price_above", "funding_below", "funding_above", "volatility_above"}
ActionTypes == {"swap"}
Directions == {"buy", "sell"}
ApprovalModes == {"auto", "manual"}

SampleCondition == [type |-> "price_below", value |-> 3000]
ConditionInputs == {<<>>, <<SampleCondition>>}

ActionInputs == {[type |-> "swap", amount_usdc |-> a, direction |-> "buy"] : a \in Amounts}
ActionSeqs == UNION {[1..k -> ActionInputs] : k \in 0..MaxActions}

\* Every strategy_dsl value the untrusted parser endpoint may answer with.
ParserDSLs ==
  {[pair |-> p, conditions |-> c, actions |-> a,
    controls |-> [max_slippage_bps |-> s, approval_mode |-> "auto",
                  expires_in_minutes |-> e]] :
     p \in PairInputs, c \in ConditionInputs, a \in ActionSeqs,
     s \in Slippages, e \in Expiries}

\* The operator-supplied WorkflowConfig values.
Configs ==
  {[allowed_pairs |-> ap, max_spend_usdc_hard |-> ms, max_slippage_bps_hard |-> sl] :
     ap \in {<<"ETH/USDC">>, <<"ETH/USDC", "DOGE/USDC">>},
     ms \in {300, 500}, sl \in {40, 75}}

\* ------------------------------------------------------------ array helpers
\* Array.prototype.includes
Includes(arr, x) == \E i \in 1..Len(arr) : arr[i] = x

RECURSIVE Reduce(_, _)
\* actions.reduce((sum, a) => sum + a.amount_usdc, 0)
Reduce(actions, sum) ==
  IF actions = <<>> THEN sum
  ELSE Reduce(Tail(actions), sum + Head(actions).amount_usdc)

TotalSpendFirstOnly(actions) == IF actions = <<>> THEN 0 ELSE actions[1].amount_usdc

TotalSpend(actions) == Reduce(actions, 0)

\* ----------------------------------------------------------- StrategyDSL schema
RECURSIVE ConditionIssues(_)
ConditionIssues(cs) ==
  IF cs = <<>> THEN <<>>
  ELSE (IF Head(cs).type \notin ConditionTypes THEN <<"condition.type">> ELSE <<>>)
       \o (IF Head(cs).value <= 0 THEN <<"condition.value">> ELSE <<>>)
       \o ConditionIssues(Tail(cs))

RECURSIVE ActionIssues(_)
ActionIssues(as) ==
  IF as = <<>> THEN <<>>
  ELSE (IF Head(as).type \notin ActionTypes THEN <<"action.type">> ELSE <<>>)
       \o (IF Head(as).amount_usdc <= 0 THEN <<"action.amount_usdc">> ELSE <<>>)
       \o (IF Head(as).direction \notin Directions THEN <<"action.direction">> ELSE <<>>)
       \o ActionIssues(Tail(as))

\* A schema whose actions array may be empty.
SchemaIssuesAllowsNoActions(dsl) ==
  (IF Len(dsl.pair) < 1 THEN <<"pair">> ELSE <<>>)
  \o (IF Len(dsl.conditions) < 1 THEN <<"conditions">> ELSE ConditionIssues(dsl.conditions))
  \o ActionIssues(dsl.actions)
  \o (IF dsl.controls.max_slippage_bps < MinSlippageBps
         \/ dsl.controls.max_slippage_bps > MaxSlippageBps
      THEN <<"controls.max_slippage_bps">> ELSE <<>>)
  \o (IF dsl.controls.approval_mode \notin ApprovalModes
      THEN <<"controls.approval_mode">> ELSE <<>>)
  \o (IF dsl.controls.expires_in_minutes <= 0
      THEN <<"controls.expires_in_minutes">> ELSE <<>>)

\* StrategyDSLSchema.safeParse(dsl).error.issues, one tag per issue.
SchemaIssues(dsl) ==
  (IF Len(dsl.pair) < 1 THEN <<"pair">> ELSE <<>>)
  \o (IF Len(dsl.conditions) < 1 THEN <<"conditions">> ELSE ConditionIssues(dsl.conditions))
  \o (IF Len(dsl.actions) < 1 THEN <<"actions">> ELSE ActionIssues(dsl.actions))
  \o (IF dsl.controls.max_slippage_bps < MinSlippageBps
         \/ dsl.controls.max_slippage_bps > MaxSlippageBps
      THEN <<"controls.max_slippage_bps">> ELSE <<>>)
  \o (IF dsl.controls.approval_mode \notin ApprovalModes
      THEN <<"controls.approval_mode">> ELSE <<>>)
  \o (IF dsl.controls.expires_in_minutes <= 0
      THEN <<"controls.expires_in_minutes">> ELSE <<>>)

SchemaValid(dsl) == SchemaIssues(dsl) = <<>>

\* ------------------------------------------------------------ Limit Enforcer
Limits(cfg) ==
  [allowed_pairs |-> cfg.allowed_pairs,
   max_spend_usdc |-> cfg.max_spend_usdc_hard,
   max_slippage_bps |-> cfg.max_slippage_bps_hard]

RECURSIVE SpendErrorsFirstOnly(_, _)
\* A spend loop that stops at the first action above the cap.
SpendErrorsFirstOnly(actions, cap) ==
  IF actions = <<>> THEN <<>>
  ELSE IF Head(actions).amount_usdc > cap
       THEN << <<"spend", Head(actions).amount_usdc, cap>> >>
       ELSE SpendErrorsFirstOnly(Tail(actions), cap)

RECURSIVE SpendErrors(_, _)
\* for (const action of strategy.actions) if (action.amount_usdc > cap) errors.push(...)
SpendErrors(actions, cap) ==
  IF actions = <<>> THEN <<>>
  ELSE (IF Head(actions).amount_usdc > cap
        THEN << <<"spend", Head(actions).amount_usdc, cap>> >> ELSE <<>>)
       \o SpendErrors(Tail(actions), cap)

PairErrors(strategy, limits) ==
  IF ~Includes(limits.allowed_pairs, strategy.pair)
  THEN << <<"pair", strategy.pair, limits.allowed_pairs>> >> ELSE <<>>

\* The validator with the allowlist check left out.
validateStrategyNoAllowlist(dsl, limits) ==
  IF ~SchemaValid(dsl)
  THEN [valid |-> FALSE, strategy |-> Null, errors |-> SchemaIssues(dsl), clamped |-> <<>>]
  ELSE LET errors == SpendErrors(dsl.actions, limits.max_spend_usdc)
       IN IF Len(errors) > 0
          THEN [valid |-> FALSE, strategy |-> Null, errors |-> errors, clamped |-> <<>>]
          ELSE [valid |-> TRUE, strategy |-> Some(dsl), errors |-> <<>>, clamped |-> <<>>]

\* The validator noting the clamp without applying it.
validateStrategyNoClamp(dsl, limits) ==
  IF ~SchemaValid(dsl)
  THEN [valid |-> FALSE, strategy |-> Null, errors |-> SchemaIssues(dsl), clamped |-> <<>>]
  ELSE LET over == dsl.controls.max_slippage_bps > limits.max_slippage_bps
           clamped == IF over
                      THEN << <<"max_slippage_bps", dsl.controls.max_slippage_bps,
                                limits.max_slippage_bps>> >>
                      ELSE <<>>
           errors == PairErrors(dsl, limits)
                     \o SpendErrors(dsl.actions, limits.max_spend_usdc)
                     \o (IF dsl.controls.expires_in_minutes <= 0
                         THEN << <<"expiry">> >> ELSE <<>>)
       IN IF Len(errors) > 0
          THEN [valid |-> FALSE, strategy |-> Null, errors |-> errors, clamped |-> clamped]
          ELSE [valid |-> TRUE, strategy |-> Some(dsl), errors |-> <<>>, clamped |-> clamped]

\* The validator letting a clamped strategy through whatever errors it found.
validateStrategyClampWins(dsl, limits) ==
  IF ~SchemaValid(dsl)
  THEN [valid |-> FALSE, strategy |-> Null, errors |-> SchemaIssues(dsl), clamped |-> <<>>]
  ELSE LET over == dsl.controls.max_slippage_bps > limits.max_slippage_bps
           clamped == IF over
                      THEN << <<"max_slippage_bps", dsl.controls.max_slippage_bps,
                                limits.max_slippage_bps>> >>
                      ELSE <<>>
           strategy == IF over
                       THEN [dsl EXCEPT !.controls.max_slippage_bps = limits.max_slippage_bps]
                       ELSE dsl
           errors == PairErrors(strategy, limits)
                     \o SpendErrors(strategy.actions, limits.max_spend_usdc)
                     \o (IF strategy.controls.expires_in_minutes <= 0
                         THEN << <<"expiry">> >> ELSE <<>>)
       IN IF Len(errors) > 0 /\ ~over
          THEN [valid |-> FALSE, strategy |-> Null, errors |-> errors, clamped |-> clamped]
          ELSE [valid |-> TRUE, strategy |-> Some(strategy), errors |-> errors,
                clamped |-> clamped]

validateStrategy(dsl, limits) ==
  IF ~SchemaValid(dsl)
  THEN [valid |-> FALSE, strategy |-> Null, errors |-> SchemaIssues(dsl), clamped |-> <<>>]
  ELSE LET over == dsl.controls.max_slippage_bps > limits.max_slippage_bps
           clamped == IF over
                      THEN << <<"max_slippage_bps", dsl.controls.max_slippage_bps,
                                limits.max_slippage_bps>> >>
                      ELSE <<>>
           strategy == IF over
                       THEN [dsl EXCEPT !.controls.max_slippage_bps = limits.max_slippage_bps]
                       ELSE dsl
           errors == PairErrors(strategy, limits)
                     \o SpendErrors(strategy.actions, limits.max_spend_usdc)
                     \o (IF strategy.controls.expires_in_minutes <= 0
                         THEN << <<"expiry">> >> ELSE <<>>)
       IN IF Len(errors) > 0
          THEN [valid |-> FALSE, strategy |-> Null, errors |-> errors, clamped |-> clamped]
          ELSE [valid |-> TRUE, strategy |-> Some(strategy), errors |-> <<>>,
                clamped |-> clamped]

\* ------------------------------------------------------------ Risk Re-checker
\* A re-check configuration with an operator ceiling of one minute.
RiskConfigFixedCeiling(cfg, decrypted) ==
  [max_spend_usdc |-> cfg.max_spend_usdc_hard,
   max_slippage_bps |-> cfg.max_slippage_bps_hard,
   allowed_pairs |-> cfg.allowed_pairs,
   max_expires_minutes |-> 1]

\* The configuration run hands to checkRisk.
RiskConfig(cfg, decrypted) ==
  [max_spend_usdc |-> cfg.max_spend_usdc_hard,
   max_slippage_bps |-> cfg.max_slippage_bps_hard,
   allowed_pairs |-> cfg.allowed_pairs,
   max_expires_minutes |-> decrypted.controls.expires_in_minutes]

\* The re-checker capping each action instead of their sum.
checkRiskPerAction(strategy, rc) ==
  LET violations ==
        (IF ~Includes(rc.allowed_pairs, strategy.pair) THEN <<"pair">> ELSE <<>>)
        \o (IF \E i \in 1..Len(strategy.actions) :
                  strategy.actions[i].amount_usdc > rc.max_spend_usdc
            THEN <<"spend">> ELSE <<>>)
        \o (IF strategy.controls.max_slippage_bps > rc.max_slippage_bps
            THEN <<"slippage">> ELSE <<>>)
        \o (IF strategy.controls.expires_in_minutes > rc.max_expires_minutes
            THEN <<"expiry">> ELSE <<>>)
  IN [passed |-> Len(violations) = 0, violations |-> violations]

\* The re-checker returning at the first violation it finds.
checkRiskShortCircuit(strategy, rc) ==
  LET totalSpend == TotalSpend(strategy.actions)
      violations ==
        IF ~Includes(rc.allowed_pairs, strategy.pair) THEN <<"pair">>
        ELSE IF totalSpend > rc.max_spend_usdc THEN <<"spend">>
        ELSE IF strategy.controls.max_slippage_bps > rc.max_slippage_bps THEN <<"slippage">>
        ELSE IF strategy.controls.expires_in_minutes > rc.max_expires_minutes
             THEN <<"expiry">>
        ELSE <<>>
  IN [passed |-> Len(violations) = 0, violations |-> violations]

checkRisk(strategy, rc) ==
  LET totalSpend == TotalSpend(strategy.actions)
      violations ==
        (IF ~Includes(rc.allowed_pairs, strategy.pair) THEN <<"pair">> ELSE <<>>)
        \o (IF totalSpend > rc.max_spend_usdc THEN <<"spend">> ELSE <<>>)
        \o (IF strategy.controls.max_slippage_bps > rc.max_slippage_bps
            THEN <<"slippage">> ELSE <<>>)
        \o (IF strategy.controls.expires_in_minutes > rc.max_expires_minutes
            THEN <<"expiry">> ELSE <<>>)
  IN [passed |-> Len(violations) = 0, violations |-> violations]

\* ------------------------------------------------------ Encrypted Intent Codec
RECURSIVE MapSeq(_, _)
MapSeq(Op(_), s) == IF s = <<>> THEN <<>> ELSE <<Op(Head(s))>> \o MapSeq(Op, Tail(s))

ConditionToJSON(c) == <<c.type, c.value>>
ConditionFromJSON(j) == [type |-> j[1], value |-> j[2]]
ActionToJSON(a) == <<a.type, a.amount_usdc, a.direction>>
ActionFromJSON(j) == [type |-> j[1], amount_usdc |-> j[2], direction |-> j[3]]

\* JSON.stringify(strategy): the members in insertion order.
Stringify(strategy) ==
  <<strategy.pair,
    MapSeq(ConditionToJSON, strategy.conditions),
    MapSeq(ActionToJSON, strategy.actions),
    <<strategy.controls.max_slippage_bps, strategy.controls.approval_mode,
      strategy.controls.expires_in_minutes>> >>

\* A parse that keeps only the first action.
ParseJSONFirstAction(text) ==
  [pair |-> text[1],
   conditions |-> MapSeq(ConditionFromJSON, text[2]),
   actions |-> MapSeq(ActionFromJSON, SubSeq(text[3], 1, 1)),
   controls |-> [max_slippage_bps |-> text[4][1], approval_mode |-> text[4][2],
                 expires_in_minutes |-> text[4][3]]]

\* JSON.parse(text) as StrategyDSL
ParseJSON(text) ==
  [pair |-> text[1],
   conditions |-> MapSeq(ConditionFromJSON, text[2]),
   actions |-> MapSeq(ActionFromJSON, text[3]),
   controls |-> [max_slippage_bps |-> text[4][1], approval_mode |-> text[4][2],
                 expires_in_minutes |-> text[4][3]]]

\* Buffer.toString("hex") and Buffer.from(text, "hex"): decoding stops at the
\* first character that is not a hex digit, so text after it never reaches the
\* bytes; rest is that text.
ToHex(bytes) == [bytes |-> bytes, rest |-> ""]
FromHex(text) == text.bytes

\* aes-256-gcm: the ciphertext and the tag are functions of key, iv and plaintext.
Cipher(key, iv, plaintext) == <<"ct", key, iv, plaintext>>
Decipher(key, iv, ciphertext) == ciphertext[4]
\* cipher.getAuthTag(): the full tag of 16 bytes.
TagLength == 16
AuthTag(key, iv, ciphertext) == [mac |-> <<key, iv, ciphertext>>, len |-> TagLength]
\* decipher.setAuthTag(tag) of a decipher created without authTagLength takes a
\* tag of any length GCM allows, and final() compares that many bytes.
GcmTagLengths == {4, 8, 12, 13, 14, 15, 16}
Sha256(data) == <<"sha256", data>>

\* BiteIntentHandler.encrypt; rnd is the draw behind uuidv4() and randomBytes(16).
encrypt(key, strategy, rnd, t) ==
  LET intentId == <<"uuid", rnd>>
      iv == <<"iv", rnd>>
      encrypted == Cipher(key, iv, Stringify(strategy))
      expiresAt == t + strategy.controls.expires_in_minutes
      totalSpend == TotalSpend(strategy.actions)
  IN [intent_id |-> intentId,
      encrypted_payload |-> ToHex(encrypted),
      iv |-> ToHex(iv),
      auth_tag |-> ToHex(AuthTag(key, iv, encrypted)),
      public_metadata |-> [intent_id |-> intentId,
                           budget_cap_usdc |-> totalSpend,
                           pair |-> strategy.pair,
                           expires_at |-> expiresAt,
                           authorization_hash |-> Sha256(<<intentId, ToHex(encrypted)>>)],
      created_at |-> t]

\* BiteIntentHandler.decrypt: ok = FALSE stands for the throw of setAuthTag or of
\* decipher.final().
decrypt(key, intent) ==
  LET iv == FromHex(intent.iv)
      authTag == FromHex(intent.auth_tag)
      encrypted == FromHex(intent.encrypted_payload)
      authentic == /\ authTag.len \in GcmTagLengths
                   /\ authTag.mac = AuthTag(key, iv, encrypted).mac
  IN IF authentic
     THEN [ok |-> TRUE, strategy |-> Some(ParseJSON(Decipher(key, iv, encrypted)))]
     ELSE [ok |-> FALSE, strategy |-> Null]

\* ------------------------------------------------------------- Execution Stub
\* An executor that simulates whatever mode it was built in.
executeAlwaysSimulates(strategy, simulate, salt) ==
  IF Len(strategy.actions) = 0
  THEN [success |-> FALSE, tx_hash |-> Null, error |-> "No actions to execute"]
  ELSE IF \E i \in 1..Len(strategy.actions) : strategy.actions[i].type # "swap"
  THEN [success |-> FALSE, tx_hash |-> Null, error |-> "Unsupported action type"]
  ELSE [success |-> TRUE, tx_hash |-> Sha256(<<Stringify(strategy), salt>>), error |-> ""]

\* TradeExecutor.execute; salt is the draw behind crypto.randomBytes(16).
execute(strategy, simulate, salt) ==
  IF Len(strategy.actions) = 0
  THEN [success |-> FALSE, tx_hash |-> Null, error |-> "No actions to execute"]
  ELSE IF \E i \in 1..Len(strategy.actions) : strategy.actions[i].type # "swap"
  THEN [success |-> FALSE, tx_hash |-> Null, error |-> "Unsupported action type"]
  ELSE IF simulate
  THEN [success |-> TRUE, tx_hash |-> Sha256(<<Stringify(strategy), salt>>), error |-> ""]
  ELSE [success |-> FALSE, tx_hash |-> Null, error |-> "Real execution not yet implemented"]

\* ----------------------------------------------------------- Receipt Assembler
\* A payment record as the paid-data client would log it.
FakeRecordForReceipt ==
  [tool |-> "price-feed", cost_usdc |-> 1, tx_hash |-> <<"0x", 1>>, status |-> "success"]

buildReceipt(params, t) ==
  [intent_id |-> params.intentId,
   raw_user_prompt |-> params.rawPrompt,
   parser_output |-> [explanation |-> params.parserOutput.explanation,
                      risk_notes |-> params.parserOutput.risk_notes,
                      parser_metadata |-> params.parserOutput.parser_metadata],
   validated_strategy |-> params.validatedStrategy,
   encrypted_intent_hash |-> Sha256(params.encryptedIntentPayload),
   payments |-> params.payments,
   reason_codes |-> params.reasonCodes,
   conditions_met |-> params.conditionsMet,
   execution_tx_hash |-> params.executionTxHash,
   total_spend_usdc |-> params.totalSpendUsdc,
   status |-> params.status,
   timestamp |-> t]

\* --------------------------------------------------------------- Parser Adapter
ParserBody(dsl) ==
  [strategy_dsl |-> dsl,
   explanation |-> "explanation",
   risk_notes |-> <<"note">>,
   parser_metadata |-> [model |-> "claude-custom", confidence |-> 85]]

FailureKinds == {"network_error", "abort", "non_ok", "bad_json"}

\* What one fetch of the parser endpoint can come back with.
Responses ==
  {[kind |-> k, body |-> Null] : k \in FailureKinds}
  \cup {[kind |-> "ok", body |-> Some(ParserBody(dsl))] : dsl \in ParserDSLs}

\* ParserAdapter.parse after its single fetch has settled with response.
parse(response) ==
  CASE response.kind = "network_error" ->
         [ok |-> FALSE, body |-> Null, error |-> Some(<<"FetchError", "network">>)]
    [] response.kind = "abort" ->
         [ok |-> FALSE, body |-> Null, error |-> Some(<<"Error", "Parser timed out">>)]
    [] response.kind = "non_ok" ->
         [ok |-> FALSE, body |-> Null, error |-> Some(<<"Error", "Parser returned HTTP">>)]
    [] response.kind = "bad_json" ->
         [ok |-> FALSE, body |-> Null, error |-> Some(<<"SyntaxError", "json">>)]
    [] response.kind = "ok" ->
         IF SchemaValid(response.body[1].strategy_dsl)
         THEN [ok |-> TRUE, body |-> response.body, error |-> Null]
         ELSE [ok |-> FALSE, body |-> Null,
               error |-> Some(<<"ZodError", SchemaIssues(response.body[1].strategy_dsl)>>)]

\* ----------------------------------------------------------- AgentWorkflow.run
\* One call of run: where it is suspended, what it has computed so far, and how
\* often it has called each collaborator.
IdleRun ==
  [pc |-> "idle",
   prompt |-> "",
   requests |-> 0,
   fetched |-> Null,
   parserOutput |-> Null,
   validations |-> 0,
   validation |-> Null,
   strategy |-> Null,
   encryptions |-> 0,
   encryptedIntent |-> Null,
   conditionCalls |-> 0,
   checkerArg |-> Null,
   conditionsMet |-> Null,
   decryptions |-> 0,
   decrypted |-> Null,
   riskChecks |-> 0,
   riskCheck |-> Null,
   executions |-> 0,
   executedAt |-> Null,
   executorArg |-> Null,
   executionResult |-> Null,
   receipts |-> <<>>,
   result |-> Null,
   error |-> Null]

\* run up to its first await: the request to the parser endpoint is in flight.
runCall(prompt) ==
  [IdleRun EXCEPT !.pc = "parsing", !.prompt = prompt, !.requests = 1]

\* return { receipt, encryptedIntent } with the receipt just built, but the
\* receipt is built a second time for the caller.
ReturnedTwice(run, receipt, intent) ==
  [run EXCEPT !.pc = "returned",
              !.receipts = Append(Append(@, receipt), receipt),
              !.result = Some([receipt |-> receipt, encryptedIntent |-> intent])]

\* const receipt = this.receiptLogger.buildReceipt(...); return { receipt, encryptedIntent }
Returned(run, receipt, intent) ==
  [run EXCEPT !.pc = "returned",
              !.receipts = Append(@, receipt),
              !.result = Some([receipt |-> receipt, encryptedIntent |-> intent])]

\* A rejected await: the promise of run rejects with the same error.
Threw(run, error) == [run EXCEPT !.pc = "threw", !.error = error]

\* What the fetch settled with, and whether the answered strategy_dsl fits the schema.
Fetched(response) ==
  Some([kind |-> response.kind,
        schemaOk |-> response.kind = "ok" /\ SchemaValid(response.body[1].strategy_dsl)])

\* The branch of run for a strategy the Limit Enforcer rejected.
runValidationFailed(run, parserOutput, t) ==
  Returned(run,
    buildReceipt([intentId |-> <<"none">>,
                  rawPrompt |-> run.prompt,
                  parserOutput |-> parserOutput,
                  validatedStrategy |-> parserOutput.strategy_dsl,
                  encryptedIntentPayload |-> <<>>,
                  payments |-> <<>>,
                  reasonCodes |-> <<>>,
                  conditionsMet |-> FALSE,
                  executionTxHash |-> Null,
                  totalSpendUsdc |-> 0,
                  status |-> "aborted"], t),
    Null)

\* run that asks the parser again when the request failed.
runAfterParseRetry(run, cfg, key, rnd, t, response) ==
  IF ~parse(response).ok
  THEN [run EXCEPT !.requests = @ + 1, !.fetched = Fetched(response)]
  ELSE Threw([run EXCEPT !.fetched = Fetched(response)], Some(<<"Error", "unreachable">>))

\* run that encrypts and polls whatever validation said.
runAfterParseNoAbort(run, cfg, key, rnd, t, response) ==
  LET p == parse(response)
      dsl == p.body[1].strategy_dsl
  IN IF ~p.ok THEN Threw([run EXCEPT !.fetched = Fetched(response)], p.error)
     ELSE [run EXCEPT !.pc = "checking",
                      !.fetched = Fetched(response),
                      !.parserOutput = p.body,
                      !.validations = @ + 1,
                      !.validation = Some(validateStrategy(dsl, Limits(cfg))),
                      !.strategy = Some(dsl),
                      !.encryptions = @ + 1,
                      !.encryptedIntent = Some(encrypt(key, dsl, rnd, t)),
                      !.conditionCalls = @ + 1,
                      !.checkerArg = Some(dsl)]

\* run from the parser's answer to the call of the condition checker.
runAfterParse(run, cfg, key, rnd, t, response) ==
  LET p == parse(response)
      r1 == [run EXCEPT !.fetched = Fetched(response)]
  IN IF ~p.ok THEN Threw(r1, p.error)
     ELSE
       LET parserOutput == p.body[1]
           validation == validateStrategy(parserOutput.strategy_dsl, Limits(cfg))
           r2 == [r1 EXCEPT !.parserOutput = Some(parserOutput),
                            !.validations = @ + 1,
                            !.validation = Some(validation)]
       IN IF ~validation.valid \/ validation.strategy = Null
          THEN runValidationFailed(r2, parserOutput, t)
          ELSE
            LET strategy == validation.strategy[1]
                encryptedIntent == encrypt(key, strategy, rnd, t)
            IN [r2 EXCEPT !.pc = "checking",
                          !.strategy = Some(strategy),
                          !.encryptions = @ + 1,
                          !.encryptedIntent = Some(encryptedIntent),
                          !.conditionCalls = @ + 1,
                          !.checkerArg = Some(strategy)]

\* A receipt that reports a data purchase and its reason code and adds the fee to
\* the spend.
LateReceiptWithDataFee(run, conditionsMet, executionTxHash, totalSpendUsdc, status, t) ==
  buildReceipt([intentId |-> run.encryptedIntent[1].intent_id,
                rawPrompt |-> run.prompt,
                parserOutput |-> run.parserOutput[1],
                validatedStrategy |-> run.strategy[1],
                encryptedIntentPayload |-> run.encryptedIntent[1].encrypted_payload,
                payments |-> <<FakeRecordForReceipt>>,
                reasonCodes |-> <<"approved">>,
                conditionsMet |-> conditionsMet,
                executionTxHash |-> executionTxHash,
                totalSpendUsdc |-> totalSpendUsdc + FakeRecordForReceipt.cost_usdc,
                status |-> status], t)

\* The receipt of the three paths that end after encryption.
LateReceipt(run, conditionsMet, executionTxHash, totalSpendUsdc, status, t) ==
  buildReceipt([intentId |-> run.encryptedIntent[1].intent_id,
                rawPrompt |-> run.prompt,
                parserOutput |-> run.parserOutput[1],
                validatedStrategy |-> run.strategy[1],
                encryptedIntentPayload |-> run.encryptedIntent[1].encrypted_payload,
                payments |-> <<>>,
                reasonCodes |-> <<>>,
                conditionsMet |-> conditionsMet,
                executionTxHash |-> executionTxHash,
                totalSpendUsdc |-> totalSpendUsdc,
                status |-> status], t)

\* The not-met branch copied from the validation branch: no intent is returned.
runConditionsNotMetNoIntent(run, t) ==
  Returned(run, LateReceipt(run, FALSE, Null, 0, "expired", t), Null)

\* The branch of run for conditions that are not met.
runConditionsNotMet(run, t) ==
  Returned(run, LateReceipt(run, FALSE, Null, 0, "expired", t), run.encryptedIntent)

\* The risk branch reporting what the strategy would have spent.
runRiskFailedReportsSpend(run, t) ==
  Returned(run,
    LateReceipt(run, TRUE, Null, TotalSpend(run.decrypted[1].actions), "aborted", t),
    run.encryptedIntent)

\* The branch of run for a decrypted strategy the Risk Re-checker refused.
runRiskFailed(run, t) ==
  Returned(run, LateReceipt(run, TRUE, Null, 0, "aborted", t), run.encryptedIntent)

\* run from the condition checker's answer to the call of the executor.
runAfterConditions(run, cfg, key, salt, t, met) ==
  LET r1 == [run EXCEPT !.conditionsMet = Some(met)]
  IN IF ~met
     THEN runConditionsNotMet(r1, t)
     ELSE
       LET d == decrypt(key, r1.encryptedIntent[1])
           r2 == [r1 EXCEPT !.decryptions = @ + 1, !.decrypted = d.strategy]
       IN IF ~d.ok THEN Threw(r2, Some(<<"Error", "decrypt">>))
          ELSE
            LET decrypted == d.strategy[1]
                riskCheck == checkRisk(decrypted, RiskConfig(cfg, decrypted))
                r3 == [r2 EXCEPT !.riskChecks = @ + 1, !.riskCheck = Some(riskCheck)]
            IN IF ~riskCheck.passed
               THEN runRiskFailed(r3, t)
               ELSE [r3 EXCEPT !.pc = "executing",
                               !.executions = @ + 1,
                               !.executedAt = Some(t),
                               !.executorArg = Some(decrypted),
                               !.executionResult = Some(execute(decrypted, TRUE, salt))]

\* run from the executor's result to its return.
runAfterExecute(run, t) ==
  LET executionResult == run.executionResult[1]
      totalSpend == TotalSpend(run.decrypted[1].actions)
  IN Returned(run,
       LateReceipt(run, TRUE, executionResult.tx_hash, totalSpend,
                   IF executionResult.success THEN "executed" ELSE "aborted", t),
       run.encryptedIntent)

\* run when the injected condition checker rejects: the rejection propagates.
runConditionsRejected(run) == Threw(run, Some(<<"Error", "condition checker">>))

Finished(run) == run.pc \in {"returned", "threw"}

Draws(before, after) ==
  (after.encryptions - before.encryptions) + (after.executions - before.executions)

\* ------------------------------------------------------------------- clock
Suspended(run) == run.pc \in {"parsing", "checking", "executing"}

\* Wall-clock time passes while a run is waiting on a collaborator.
Tick ==
  /\ now < MaxTime
  /\ Suspended(wf.run) \/ \E id \in DOMAIN trades : Suspended(trades[id].run)
  /\ now' = now + 1
  /\ UNCHANGED <<fn, codec, engineLog, pay, engine, config, entropy, wf, bots, trades, ret>>

\* ------------------------------------- one AgentWorkflow driven by its caller
WorkflowKey == <<"key", 0>>

\* workflow.run(prompt, conditionChecker)
WfRun(prompt) ==
  /\ wf.run.pc = "idle"
  /\ wf' = [wf EXCEPT !.run = runCall(prompt)]
  /\ UNCHANGED <<fn, codec, engineLog, pay, engine, config, now, entropy, bots, trades, ret>>

WfParserSettles(response) ==
  /\ wf.run.pc = "parsing"
  /\ LET next == runAfterParse(wf.run, config, wf.key, entropy + 1, now, response)
     IN /\ wf' = [wf EXCEPT !.run = next]
        /\ entropy' = entropy + Draws(wf.run, next)
  /\ UNCHANGED <<fn, codec, engineLog, pay, engine, config, now, bots, trades, ret>>

\* The endpoint answers 2xx with a body whose strategy_dsl fits the schema.
WfParserAnswers ==
  /\ wf.run.pc = "parsing"
  /\ \E response \in Responses : parse(response).ok /\ WfParserSettles(response)

\* The request fails, times out, or is answered with something parse rejects.
WfParserFails ==
  /\ wf.run.pc = "parsing"
  /\ \E response \in Responses : ~parse(response).ok /\ WfParserSettles(response)

WfConditionsResolve(met) ==
  /\ wf.run.pc = "checking"
  /\ LET next == runAfterConditions(wf.run, config, wf.key, entropy + 1, now, met)
     IN /\ wf' = [wf EXCEPT !.run = next]
        /\ entropy' = entropy + Draws(wf.run, next)
  /\ UNCHANGED <<fn, codec, engineLog, pay, engine, config, now, bots, trades, ret>>

WfConditionsReject ==
  /\ wf.run.pc = "checking"
  /\ wf' = [wf EXCEPT !.run = runConditionsRejected(@)]
  /\ UNCHANGED <<fn, codec, engineLog, pay, engine, config, now, entropy, bots, trades, ret>>

WfExecuteResolves ==
  /\ wf.run.pc = "executing"
  /\ wf' = [wf EXCEPT !.run = runAfterExecute(@, now)]
  /\ UNCHANGED <<fn, codec, engineLog, pay, engine, config, now, entropy, bots, trades, ret>>

\* ------------------------------------------------------------ TradingDashboard
BotNames == {"claw"}
BotConfigs ==
  {[name |-> n, endpoint |-> "http://claw/parse", enabled |-> e] :
     n \in BotNames, e \in BOOLEAN}

\* What the bots' endpoints answer with in the dashboard runs.
GoodDSL ==
  [pair |-> "ETH/USDC", conditions |-> <<SampleCondition>>,
   actions |-> <<[type |-> "swap", amount_usdc |-> 200, direction |-> "buy"]>>,
   controls |-> [max_slippage_bps |-> 50, approval_mode |-> "auto",
                 expires_in_minutes |-> 1]]
DashDSLs ==
  {GoodDSL,
   [GoodDSL EXCEPT !.pair = "DOGE/USDC"],
   [GoodDSL EXCEPT !.actions = <<GoodDSL.actions[1], GoodDSL.actions[1]>>]}
DashResponses ==
  {[kind |-> "network_error", body |-> Null]}
  \cup {[kind |-> "ok", body |-> Some(ParserBody(dsl))] : dsl \in DashDSLs}

DashConfig ==
  [allowed_pairs |-> <<"ETH/USDC">>, max_spend_usdc_hard |-> 300,
   max_slippage_bps_hard |-> 75]

UnknownTradeId == <<"trade", 0, 0>>

\* BotManager.registerBot: this.bots.set(config.name, config)
registerBot(registry, botConfig) ==
  [n \in DOMAIN registry \cup {botConfig.name} |->
     IF n = botConfig.name THEN botConfig ELSE registry[n]]

RegisterBot(botConfig) ==
  /\ bots' = registerBot(bots, botConfig)
  /\ ret' = [op |-> "registerBot", arg |-> Some(botConfig.name), value |-> Null]
  /\ UNCHANGED <<fn, codec, engineLog, pay, engine, config, now, entropy, wf, trades>>

\* startMonitoring up to its await of workflow.run: a workflow of its own (with a
\* key of its own) is built and its run is started.
startMonitoring(trade, prompt) ==
  [trade EXCEPT !.status = "monitoring",
                !.key = <<"key", trade.id>>,
                !.run = runCall(prompt)]

\* startMonitoring without its catch: a run that throws leaves the trade as it is.
monitoringSettledNoCatch(trade, run) ==
  IF run.pc = "returned"
  THEN [trade EXCEPT !.run = run,
                     !.result = run.result,
                     !.status = IF run.result[1].receipt.status = "executed" THEN "executed"
                                ELSE IF run.result[1].receipt.status = "aborted" THEN "failed"
                                ELSE "expired"]
  ELSE [trade EXCEPT !.run = run]

\* startMonitoring from the settling of workflow.run to its end.
monitoringSettled(trade, run) ==
  IF run.pc = "returned"
  THEN [trade EXCEPT !.run = run,
                     !.result = run.result,
                     !.status = IF run.result[1].receipt.status = "executed" THEN "executed"
                                ELSE IF run.result[1].receipt.status = "aborted" THEN "failed"
                                ELSE "expired"]
  ELSE IF run.pc = "threw"
  THEN [trade EXCEPT !.run = run, !.status = "failed"]
  ELSE [trade EXCEPT !.run = run]

\* submitTrade that only looks the bot up and never reads its enabled flag.
SubmitTradeIgnoresEnabled(prompt, botName) ==
  /\ botName \in DOMAIN bots
  /\ Cardinality(DOMAIN trades) < MaxTrades
  /\ LET tradeId == <<"trade", now, entropy + 1>>
         trade == [id |-> tradeId,
                   user_prompt |-> prompt,
                   bot_name |-> botName,
                   submitted_at |-> now,
                   status |-> "pending",
                   result |-> Null,
                   key |-> Null,
                   run |-> IdleRun]
         started == startMonitoring(trade, prompt)
     IN /\ trades' = [id \in DOMAIN trades \cup {tradeId} |->
                        IF id = tradeId THEN started ELSE trades[id]]
        /\ ret' = [op |-> "submitTrade", arg |-> Some(botName), value |-> Some(tradeId)]
  /\ entropy' = entropy + 1
  /\ UNCHANGED <<fn, codec, engineLog, pay, engine, config, now, wf, bots>>

\* submitTrade(userPrompt, botName) for a registered, enabled bot.
SubmitTrade(prompt, botName) ==
  /\ botName \in DOMAIN bots
  /\ bots[botName].enabled
  /\ Cardinality(DOMAIN trades) < MaxTrades
  /\ LET tradeId == <<"trade", now, entropy + 1>>
         trade == [id |-> tradeId,
                   user_prompt |-> prompt,
                   bot_name |-> botName,
                   submitted_at |-> now,
                   status |-> "pending",
                   result |-> Null,
                   key |-> Null,
                   run |-> IdleRun]
         started == startMonitoring(trade, prompt)
     IN /\ trades' = [id \in DOMAIN trades \cup {tradeId} |->
                        IF id = tradeId THEN started ELSE trades[id]]
        /\ ret' = [op |-> "submitTrade", arg |-> Some(botName), value |-> Some(tradeId)]
  /\ entropy' = entropy + 1
  /\ UNCHANGED <<fn, codec, engineLog, pay, engine, config, now, wf, bots>>

\* submitTrade for a bot that is not registered or is disabled: it throws.
SubmitTradeRejected(prompt, botName) ==
  /\ ~(botName \in DOMAIN bots /\ bots[botName].enabled)
  /\ ret' = [op |-> "submitTrade", arg |-> Some(botName),
             value |-> IF botName \notin DOMAIN bots
                       THEN Some(<<"Error", "not found">>)
                       ELSE Some(<<"Error", "is disabled">>)]
  /\ UNCHANGED <<fn, codec, engineLog, pay, engine, config, now, entropy, wf, bots, trades>>

\* A boolean return value (cancelTrade's `return true` / `return false`),
\* tagged so that it stays comparable with the other kinds of return value.
Flag(b) == <<"boolean", b>>

\* cancelTrade that cancels every trade it finds, whatever its status.
CancelTradeAnyStatus(tradeId) ==
  /\ IF tradeId \notin DOMAIN trades
     THEN /\ ret' = [op |-> "cancelTrade", arg |-> Some(tradeId), value |-> Some(Flag(FALSE))]
          /\ UNCHANGED trades
     ELSE /\ trades' = [trades EXCEPT ![tradeId].status = "expired"]
          /\ ret' = [op |-> "cancelTrade", arg |-> Some(tradeId), value |-> Some(Flag(TRUE))]
  /\ UNCHANGED <<fn, codec, engineLog, pay, engine, config, now, entropy, wf, bots>>

\* cancelTrade(tradeId)
CancelTrade(tradeId) ==
  /\ IF tradeId \notin DOMAIN trades
     THEN /\ ret' = [op |-> "cancelTrade", arg |-> Some(tradeId), value |-> Some(Flag(FALSE))]
          /\ UNCHANGED trades
     ELSE IF trades[tradeId].status = "pending" \/ trades[tradeId].status = "monitoring"
     THEN /\ trades' = [trades EXCEPT ![tradeId].status = "expired"]
          /\ ret' = [op |-> "cancelTrade", arg |-> Some(tradeId), value |-> Some(Flag(TRUE))]
     ELSE /\ ret' = [op |-> "cancelTrade", arg |-> Some(tradeId), value |-> Some(Flag(FALSE))]
          /\ UNCHANGED trades
  /\ UNCHANGED <<fn, codec, engineLog, pay, engine, config, now, entropy, wf, bots>>

\* Background runs that keep the validated strategy in one slot shared by all
\* runs under way: a step of one run overwrites what the others hold.
TradeRunStepsSharedStrategy(tradeId, next) ==
  /\ trades' = [id \in DOMAIN trades |->
                  IF id = tradeId THEN monitoringSettled(trades[id], next)
                  ELSE IF /\ next.strategy # Null
                          /\ trades[id].run.strategy # Null
                          /\ ~Finished(trades[id].run)
                  THEN [trades[id] EXCEPT !.run.strategy = next.strategy]
                  ELSE trades[id]]
  /\ entropy' = entropy + Draws(trades[tradeId].run, next)
  /\ UNCHANGED <<fn, codec, engineLog, pay, engine, config, now, wf, bots, ret>>

\* The background run of a trade moves on by one step; when it settles, so does
\* the rest of startMonitoring.
TradeRunSteps(tradeId, next) ==
  /\ trades' = [trades EXCEPT ![tradeId] = monitoringSettled(@, next)]
  /\ entropy' = entropy + Draws(trades[tradeId].run, next)
  /\ UNCHANGED <<fn, codec, engineLog, pay, engine, config, now, wf, bots, ret>>

TradeParserAnswers(tradeId) ==
  /\ trades[tradeId].run.pc = "parsing"
  /\ \E response \in DashResponses :
       /\ parse(response).ok
       /\ \E next \in {runAfterParse(trades[tradeId].run, config, trades[tradeId].key,
                                      entropy + 1, now, response)} :
            TradeRunSteps(tradeId, next)

TradeParserFails(tradeId) ==
  /\ trades[tradeId].run.pc = "parsing"
  /\ \E response \in DashResponses :
       /\ ~parse(response).ok
       /\ \E next \in {runAfterParse(trades[tradeId].run, config, trades[tradeId].key,
                                      entropy + 1, now, response)} :
            TradeRunSteps(tradeId, next)

\* simulateConditionCheck: Math.random() > 0.5
TradeConditionsResolve(tradeId, met) ==
  /\ trades[tradeId].run.pc = "checking"
  /\ \E next \in {runAfterConditions(trades[tradeId].run, config, trades[tradeId].key,
                                       entropy + 1, now, met)} :
       TradeRunSteps(tradeId, next)

TradeExecuteResolves(tradeId) ==
  /\ trades[tradeId].run.pc = "executing"
  /\ \E next \in {runAfterExecute(trades[tradeId].run, now)} :
       TradeRunSteps(tradeId, next)

\* --------------------------------------------------------- X402PaymentClient
\* pay models one X402PaymentClient and its caller.  PaymentRecord objects live
\* in pay.heap and are referred to by their index, so that an array copy shares
\* the objects of the array it was copied from; pay.records is this.records,
\* pay.calls the fetchWithPayment calls made so far (in flight or settled),
\* pay.view the array the caller got from its last getPaymentRecords call.
ToolUrls == {"https://api.example.com/price"}
ToolCosts == {1, 2}
Payloads == {[price |-> 3000]}

\* What a fetch settles with: a rejection (no response) or a response.
ToolResponses ==
  {[status |-> 200, json |-> Some(pl)] : pl \in Payloads}
  \cup {[status |-> st, json |-> Null] : st \in {200, PaymentRequired, 500}}
FetchOutcomes ==
  {[kind |-> "rejected", response |-> Null]}
  \cup {[kind |-> "response", response |-> Some(r)] : r \in ToolResponses}

\* Response.ok
Ok(response) == response.status >= 200 /\ response.status <= 299

NewClient ==
  [heap |-> <<>>, records |-> <<>>, calls |-> <<>>, view |-> Null]

NewCall(toolUrl, toolCostUsdc) ==
  [pc |-> "first",
   toolUrl |-> toolUrl,
   toolCostUsdc |-> toolCostUsdc,
   requests |-> <<[url |-> toolUrl, paymentTx |-> Null]>>,
   firstResponse |-> Null,
   signArgs |-> <<>>,
   txHash |-> Null,
   record |-> Null,
   retryResponse |-> Null,
   result |-> Null,
   error |-> Null]

CallReturned(call, payload) == [call EXCEPT !.pc = "returned", !.result = Some(payload)]
CallThrew(call, error) == [call EXCEPT !.pc = "threw", !.error = Some(error)]

\* return response.json(): the body parses, or the returned promise rejects.
ReturnJson(call, response) ==
  IF response.json # Null
  THEN CallReturned(call, response.json[1])
  ELSE CallThrew(call, <<"SyntaxError", 0>>)

\* fetchWithPayment up to its first await: the first request is sent.
fetchWithPayment(client, toolUrl, toolCostUsdc) ==
  [client EXCEPT !.calls = Append(@, NewCall(toolUrl, toolCostUsdc))]

\* A first settling that appends a failed record when the tool answers non-OK.
firstSettledRecordsFailure(client, c, outcome) ==
  LET call == client.calls[c]
  IN IF outcome.kind = "rejected"
     THEN [client EXCEPT !.calls[c] = CallThrew(call, <<"TypeError", 0>>)]
     ELSE LET response == outcome.response[1]
              seen == [call EXCEPT !.firstResponse = Some(response)]
          IN IF response.status = PaymentRequired
             THEN [client EXCEPT
                     !.calls[c] = [seen EXCEPT !.pc = "signing",
                                               !.signArgs = Append(@, call.toolCostUsdc)]]
             ELSE IF ~Ok(response)
             THEN [client EXCEPT
                     !.heap = Append(@, [tool |-> call.toolUrl,
                                         cost_usdc |-> call.toolCostUsdc,
                                         tx_hash |-> <<"0x", 0>>,
                                         timestamp |-> 0,
                                         status |-> "failed"]),
                     !.records = Append(@, Len(client.heap) + 1),
                     !.calls[c] = CallThrew(seen, <<"Tool request failed", response.status>>)]
             ELSE [client EXCEPT !.calls[c] = ReturnJson(seen, response)]

\* fetchWithPayment from the settling of the first fetch to the next await
\* (signPayment) or to its end.
firstSettled(client, c, outcome) ==
  LET call == client.calls[c]
  IN IF outcome.kind = "rejected"
     THEN [client EXCEPT !.calls[c] = CallThrew(call, <<"TypeError", 0>>)]
     ELSE LET response == outcome.response[1]
              seen == [call EXCEPT !.firstResponse = Some(response)]
          IN IF response.status = PaymentRequired
             THEN [client EXCEPT
                     !.calls[c] = [seen EXCEPT !.pc = "signing",
                                               !.signArgs = Append(@, call.toolCostUsdc)]]
             ELSE IF ~Ok(response)
             THEN [client EXCEPT
                     !.calls[c] = CallThrew(seen, <<"Tool request failed", response.status>>)]
             ELSE [client EXCEPT !.calls[c] = ReturnJson(seen, response)]

\* A signing step that puts the record in the ledger before the retry is sent.
signSettledRecordsFirst(client, c, resolved, t) ==
  LET call == client.calls[c]
  IN IF ~resolved
     THEN [client EXCEPT !.calls[c] = CallThrew(call, <<"SignerError", 0>>)]
     ELSE LET txHash == <<"0x", c>>
              record == [tool |-> call.toolUrl,
                         cost_usdc |-> call.toolCostUsdc,
                         tx_hash |-> txHash,
                         timestamp |-> t,
                         status |-> "success"]
          IN [client EXCEPT
                !.heap = Append(@, record),
                !.records = Append(@, Len(client.heap) + 1),
                !.calls[c] = [call EXCEPT
                                !.pc = "retrying",
                                !.txHash = Some(txHash),
                                !.record = Some(Len(client.heap) + 1),
                                !.requests = Append(@, [url |-> call.toolUrl,
                                                        paymentTx |-> Some(txHash)])]]

\* fetchWithPayment from the settling of signPayment to the retry request: the
\* record object is created (held by the local variable record only) and the
\* request is sent again with the X-Payment-Tx header.
signSettled(client, c, resolved, t) ==
  LET call == client.calls[c]
  IN IF ~resolved
     THEN [client EXCEPT !.calls[c] = CallThrew(call, <<"SignerError", 0>>)]
     ELSE LET txHash == <<"0x", c>>
              record == [tool |-> call.toolUrl,
                         cost_usdc |-> call.toolCostUsdc,
                         tx_hash |-> txHash,
                         timestamp |-> t,
                         status |-> "success"]
          IN [client EXCEPT
                !.heap = Append(@, record),
                !.calls[c] = [call EXCEPT
                                !.pc = "retrying",
                                !.txHash = Some(txHash),
                                !.record = Some(Len(client.heap) + 1),
                                !.requests = Append(@, [url |-> call.toolUrl,
                                                        paymentTx |-> Some(txHash)])]]


\* A retry settling that answers a second 402 by paying again.
retrySettledPaysAgain(client, c, outcome) ==
  LET call == client.calls[c]
      ref == call.record[1]
  IN IF outcome.kind = "rejected"
     THEN [client EXCEPT !.calls[c] = CallThrew(call, <<"TypeError", 0>>)]
     ELSE LET response == outcome.response[1]
              seen == [call EXCEPT !.retryResponse = Some(response)]
          IN IF response.status = PaymentRequired /\ Len(call.signArgs) < 2
             THEN [client EXCEPT
                     !.calls[c] = [seen EXCEPT !.pc = "signing",
                                               !.signArgs = Append(@, call.toolCostUsdc)]]
             ELSE IF ~Ok(response)
             THEN [client EXCEPT
                     !.heap[ref].status = "failed",
                     !.records = Append(@, ref),
                     !.calls[c] = CallThrew(seen, <<"Paid tool retry failed", response.status>>)]
             ELSE [client EXCEPT
                     !.records = Append(@, ref),
                     !.calls[c] = ReturnJson(seen, response)]

\* A retry settling that forgets the record of a payment whose retry failed.
retrySettledDropsFailed(client, c, outcome) ==
  LET call == client.calls[c]
      ref == call.record[1]
  IN IF outcome.kind = "rejected"
     THEN [client EXCEPT !.calls[c] = CallThrew(call, <<"TypeError", 0>>)]
     ELSE LET response == outcome.response[1]
              seen == [call EXCEPT !.retryResponse = Some(response)]
          IN IF ~Ok(response)
             THEN [client EXCEPT
                     !.heap[ref].status = "failed",
                     !.calls[c] = CallThrew(seen, <<"Paid tool retry failed", response.status>>)]
             ELSE [client EXCEPT
                     !.records = Append(@, ref),
                     !.calls[c] = ReturnJson(seen, response)]

\* fetchWithPayment from the settling of the retry fetch to its end.  A rejected
\* fetch leaves the function at the await, before either push.
retrySettled(client, c, outcome) ==
  LET call == client.calls[c]
      ref == call.record[1]
  IN IF outcome.kind = "rejected"
     THEN [client EXCEPT !.calls[c] = CallThrew(call, <<"TypeError", 0>>)]
     ELSE LET response == outcome.response[1]
              seen == [call EXCEPT !.retryResponse = Some(response)]
          IN IF ~Ok(response)
             THEN [client EXCEPT
                     !.heap[ref].status = "failed",
                     !.records = Append(@, ref),
                     !.calls[c] = CallThrew(seen, <<"Paid tool retry failed", response.status>>)]
             ELSE [client EXCEPT
                     !.records = Append(@, ref),
                     !.calls[c] = ReturnJson(seen, response)]

\* [...this.records]: a new array holding the same record objects.
getPaymentRecords(client) == client.records

RECURSIVE SumCosts(_, _, _)
\* .reduce((sum, r) => sum + r.cost_usdc, 0) over the records that pass keep
SumCosts(heap, refs, keep) ==
  IF refs = <<>> THEN 0
  ELSE (IF heap[Head(refs)].status \in keep THEN heap[Head(refs)].cost_usdc ELSE 0)
       + SumCosts(heap, Tail(refs), keep)

\* A total that forgets the status filter.
getTotalSpentAll(client) == SumCosts(client.heap, client.records, {"success", "failed"})

\* this.records.filter((r) => r.status === "success").reduce(...)
getTotalSpent(client) == SumCosts(client.heap, client.records, {"success"})

\* ---- the actions of the client and of its caller
payOthers == <<config, now, entropy, wf, bots, trades, ret, engine, engineLog, fn, codec>>

FetchWithPayment(toolUrl, toolCostUsdc) ==
  /\ Len(pay.calls) < MaxCalls
  /\ pay' = fetchWithPayment(pay, toolUrl, toolCostUsdc)
  /\ UNCHANGED payOthers

FirstSettles(c, outcome) ==
  /\ pay.calls[c].pc = "first"
  /\ pay' = firstSettled(pay, c, outcome)
  /\ UNCHANGED payOthers

SignSettles(c, resolved) ==
  /\ pay.calls[c].pc = "signing"
  /\ pay' = signSettled(pay, c, resolved, now)
  /\ UNCHANGED payOthers

RetrySettles(c, outcome) ==
  /\ pay.calls[c].pc = "retrying"
  /\ pay' = retrySettled(pay, c, outcome)
  /\ UNCHANGED payOthers

GetPaymentRecords ==
  /\ pay' = [pay EXCEPT !.view = Some(getPaymentRecords(pay))]
  /\ UNCHANGED payOthers

\* What the caller can do to the array it was handed: push an object of its own,
\* pop an entry, or assign to a field of one of the array's records.
FakeRecord ==
  [tool |-> "fake", cost_usdc |-> 999, tx_hash |-> <<"0x", 0>>, timestamp |-> 0,
   status |-> "success"]

\* The entries of its array the caller writes to, and the amounts it writes.
CallerIndices == {1}
CallerCosts == {0}

CallerPushes ==
  /\ pay.view # Null
  /\ Cardinality({h \in 1..Len(pay.heap) : pay.heap[h].tool = FakeRecord.tool}) < MaxView
  /\ pay' = [pay EXCEPT !.heap = Append(@, FakeRecord),
                        !.view = Some(Append(pay.view[1], Len(pay.heap) + 1))]
  /\ UNCHANGED payOthers

CallerPops ==
  /\ pay.view # Null
  /\ pay.view[1] # <<>>
  /\ pay' = [pay EXCEPT !.view = Some(SubSeq(pay.view[1], 1, Len(pay.view[1]) - 1))]
  /\ UNCHANGED payOthers

CallerSetsStatus(k, status) ==
  /\ pay.view # Null
  /\ k \in 1..Len(pay.view[1])
  /\ pay' = [pay EXCEPT !.heap[pay.view[1][k]].status = status]
  /\ UNCHANGED payOthers

CallerSetsCost(k, cost) ==
  /\ pay.view # Null
  /\ k \in 1..Len(pay.view[1])
  /\ pay' = [pay EXCEPT !.heap[pay.view[1][k]].cost_usdc = cost]
  /\ UNCHANGED payOthers

\* ---------------------------------------------------- EconomicReasoningEngine
Budgets == {0, 5, 10}
EngineTools == {"price_oracle"}
EngineCosts == {0, 3, 5, 7}

\* constructor(initialBudget)
NewEngine(initialBudget) ==
  [budgetRemaining |-> initialBudget, reasonCodes |-> <<>>,
   op |-> "none", value |-> Null]

\* An engine that only logs the purchases it approves.
shouldPurchaseLogsApprovals(eng, toolName, costUsdc) ==
  LET canAfford == eng.budgetRemaining >= costUsdc
  IN [eng EXCEPT
        !.reasonCodes = IF canAfford
                        THEN Append(@, [tool |-> toolName,
                                        cost_usdc |-> costUsdc,
                                        budget_remaining_usdc |-> eng.budgetRemaining,
                                        decision |-> "proceed",
                                        reason |-> <<toolName, costUsdc, eng.budgetRemaining,
                                                     "Proceeding.">>])
                        ELSE @,
        !.op = "shouldPurchase",
        !.value = Some(canAfford)]

\* An engine that debits the budget as soon as it approves a purchase.
shouldPurchaseDebits(eng, toolName, costUsdc) ==
  LET canAfford == eng.budgetRemaining >= costUsdc
  IN [eng EXCEPT
        !.reasonCodes = Append(@, [tool |-> toolName,
                                   cost_usdc |-> costUsdc,
                                   budget_remaining_usdc |-> eng.budgetRemaining,
                                   decision |-> IF canAfford THEN "proceed" ELSE "skip",
                                   reason |-> <<toolName, costUsdc, eng.budgetRemaining,
                                                IF canAfford THEN "Proceeding." ELSE "Skipping.">>]),
        !.budgetRemaining = IF canAfford THEN @ - costUsdc ELSE @,
        !.op = "shouldPurchase",
        !.value = Some(canAfford)]

\* An engine that approves whatever the cost.
shouldPurchaseApprovesAll(eng, toolName, costUsdc) ==
  [eng EXCEPT
     !.reasonCodes = Append(@, [tool |-> toolName,
                                cost_usdc |-> costUsdc,
                                budget_remaining_usdc |-> eng.budgetRemaining,
                                decision |-> "proceed",
                                reason |-> <<toolName, costUsdc, eng.budgetRemaining,
                                             "Proceeding.">>]),
     !.op = "shouldPurchase",
     !.value = Some(TRUE)]

\* An engine that refuses to spend exactly what is left.
shouldPurchaseStrict(eng, toolName, costUsdc) ==
  LET canAfford == eng.budgetRemaining > costUsdc
  IN [eng EXCEPT
        !.reasonCodes = Append(@, [tool |-> toolName,
                                   cost_usdc |-> costUsdc,
                                   budget_remaining_usdc |-> eng.budgetRemaining,
                                   decision |-> IF canAfford THEN "proceed" ELSE "skip",
                                   reason |-> <<toolName, costUsdc, eng.budgetRemaining,
                                                IF canAfford THEN "Proceeding." ELSE "Skipping.">>]),
        !.op = "shouldPurchase",
        !.value = Some(canAfford)]

\* shouldPurchase(toolName, costUsdc): the engine afterwards, its return in value.
shouldPurchase(eng, toolName, costUsdc) ==
  LET canAfford == eng.budgetRemaining >= costUsdc
  IN [eng EXCEPT
        !.reasonCodes = Append(@, [tool |-> toolName,
                                   cost_usdc |-> costUsdc,
                                   budget_remaining_usdc |-> eng.budgetRemaining,
                                   decision |-> IF canAfford THEN "proceed" ELSE "skip",
                                   reason |-> <<toolName, costUsdc, eng.budgetRemaining,
                                                IF canAfford THEN "Proceeding." ELSE "Skipping.">>]),
        !.op = "shouldPurchase",
        !.value = Some(canAfford)]

\* recordSpend(amount)
recordSpend(eng, amount) ==
  [eng EXCEPT !.budgetRemaining = @ - amount, !.op = "recordSpend", !.value = Null]

engineOthers == <<config, now, entropy, wf, bots, trades, ret, pay, fn, codec>>

\* engineLog keeps, beside the engine, the budget it was constructed with and the
\* calls made on it, each with its arguments, the budget it found and its return.
NewEngineLog(eng) == [initialBudget |-> eng.budgetRemaining, calls |-> <<>>]

\* [...this.reasonCodes]
getReasonCodes(eng) == eng.reasonCodes

\* getBudgetRemaining()
getBudgetRemaining(eng) == eng.budgetRemaining

ShouldPurchase(toolName, costUsdc) ==
  /\ Len(engineLog.calls) < MaxDecisions
  /\ engine' = shouldPurchase(engine, toolName, costUsdc)
  /\ engineLog' = [engineLog EXCEPT
                     !.calls = Append(@, [op |-> "shouldPurchase",
                                          tool |-> toolName,
                                          amount |-> costUsdc,
                                          budget |-> getBudgetRemaining(engine),
                                          returned |-> engine'.value])]
  /\ UNCHANGED engineOthers

RecordSpend(amount) ==
  /\ Len(engineLog.calls) < MaxDecisions
  /\ engine' = recordSpend(engine, amount)
  /\ engineLog' = [engineLog EXCEPT
                     !.calls = Append(@, [op |-> "recordSpend",
                                          tool |-> "",
                                          amount |-> amount,
                                          budget |-> getBudgetRemaining(engine),
                                          returned |-> Null])]
  /\ UNCHANGED engineOthers

\* --------------------------------------------------- calls of the pure functions
\* fn holds one call of validateStrategy, checkRisk or TradeExecutor.execute: its
\* arguments and what it returned.
NoCall == [op |-> "none"]

\* codec holds a BiteIntentHandler's key, the intents in circulation (each with
\* who encrypted it, from which strategy, and what was altered since) and the
\* last decrypt call.
NoHandler == [key |-> Null, pool |-> <<>>, last |-> Null]

\* The limits validateStrategy is called with; a hard slippage maximum of 0 is an
\* operator who allows no slippage.
LimitInputs ==
  {[allowed_pairs |-> ap, max_spend_usdc |-> ms, max_slippage_bps |-> sl] :
     ap \in {<<"ETH/USDC">>, <<"ETH/USDC", "DOGE/USDC">>},
     ms \in {300, 500}, sl \in {0, 40, 75}}

RiskConfigInputs ==
  {[max_spend_usdc |-> ms, max_slippage_bps |-> sl, allowed_pairs |-> ap,
    max_expires_minutes |-> 1] :
     ap \in {<<"ETH/USDC">>, <<"ETH/USDC", "DOGE/USDC">>},
     ms \in {300, 500}, sl \in {40, 75}}

\* What reaches the executor at run time: the action type is only swap by the
\* compile-time type, and the list may be empty.
ExecutorActions ==
  {[type |-> ty, amount_usdc |-> 200, direction |-> "buy"] : ty \in {"swap", "transfer"}}
ExecutorStrategies ==
  {[pair |-> "ETH/USDC", conditions |-> <<SampleCondition>>, actions |-> as,
    controls |-> [max_slippage_bps |-> 50, approval_mode |-> "auto",
                  expires_in_minutes |-> 1]] :
     as \in UNION {[1..k -> ExecutorActions] : k \in 0..MaxActions}}

fnOthers == <<config, now, entropy, wf, bots, trades, ret, pay, engine, engineLog, codec>>

ValidateStrategy(dsl, limits) ==
  /\ fn.op = "none"
  /\ fn' = [op |-> "validateStrategy", dsl |-> dsl, limits |-> limits,
            result |-> validateStrategy(dsl, limits), again |-> Null]
  /\ UNCHANGED fnOthers

\* validateStrategy called once more, on the strategy it returned.
Revalidate ==
  /\ fn.op = "validateStrategy"
  /\ fn.result.valid
  /\ fn.again = Null
  /\ fn' = [fn EXCEPT !.again = Some(validateStrategy(fn.result.strategy[1], fn.limits))]
  /\ UNCHANGED fnOthers

CheckRisk(strategy, rc) ==
  /\ fn.op = "none"
  /\ fn' = [op |-> "checkRisk", strategy |-> strategy, config |-> rc,
            result |-> checkRisk(strategy, rc)]
  /\ UNCHANGED fnOthers

Execute(strategy, simulate, salt) ==
  /\ fn.op = "none"
  /\ fn' = [op |-> "execute", strategy |-> strategy, simulate |-> simulate,
            result |-> execute(strategy, simulate, salt)]
  /\ UNCHANGED fnOthers

\* ------------------------------------------------------ codec calls
MaxIntents == 2
CodecKeys == {"key-1", "key-2"}
OtherKey(key) == CHOOSE k \in CodecKeys : k # key

\* Well-formed strategies: the tests' sample, and one with two actions, a sell
\* and manual approval.
CodecStrategies ==
  {[pair |-> "ETH/USDC", conditions |-> <<SampleCondition>>,
    actions |-> <<[type |-> "swap", amount_usdc |-> 200, direction |-> "buy"]>>,
    controls |-> [max_slippage_bps |-> 50, approval_mode |-> "auto",
                  expires_in_minutes |-> 1]],
   [pair |-> "DOGE/USDC", conditions |-> <<SampleCondition>>,
    actions |-> <<[type |-> "swap", amount_usdc |-> 200, direction |-> "buy"],
                  [type |-> "swap", amount_usdc |-> 400, direction |-> "sell"]>>,
    controls |-> [max_slippage_bps |-> 100, approval_mode |-> "manual",
                  expires_in_minutes |-> 2]]}

IntentFields == {"encrypted_payload", "iv", "auth_tag"}
\* Byte lengths an auth_tag is cut down to: one GCM refuses and one it allows.
TruncatedLengths == {3, 4}

codecOthers == <<config, now, entropy, wf, bots, trades, ret, pay, engine, engineLog, fn>>

\* new BiteIntentHandler(): the constructor draws the key.
NewHandler(key) == [key |-> Some(key), pool |-> <<>>, last |-> Null]

\* handler.encrypt(strategy), or the same call on a second handler with a key of
\* its own.
Encrypt(own, strategy) ==
  /\ Len(codec.pool) < MaxIntents
  /\ LET key == IF own THEN codec.key[1] ELSE OtherKey(codec.key[1])
         intent == encrypt(key, strategy, Len(codec.pool) + 1, now)
     IN codec' = [codec EXCEPT !.pool = Append(@, [intent |-> intent, own |-> own,
                                                   strategy |-> strategy,
                                                   altered |-> "none"])]
  /\ UNCHANGED codecOthers

Altered(i, field, text) ==
  /\ codec' = [codec EXCEPT !.pool[i].intent[field] = text, !.pool[i].altered = field]
  /\ UNCHANGED codecOthers

\* Whoever holds the intent replaces one hex field of this handler's intent by the
\* same field, of other bytes, of another intent in circulation.
Splice(i, field, j) ==
  /\ codec.pool[i].own
  /\ codec.pool[i].altered = "none"
  /\ j # i
  /\ FromHex(codec.pool[j].intent[field]) # FromHex(codec.pool[i].intent[field])
  /\ Altered(i, field, codec.pool[j].intent[field])

\* ... or writes text that is not hex after it, which leaves the bytes as they were.
PadHex(i, field) ==
  /\ codec.pool[i].own
  /\ codec.pool[i].altered = "none"
  /\ codec' = [codec EXCEPT !.pool[i].intent[field].rest = "zz",
                            !.pool[i].altered = "text"]
  /\ UNCHANGED codecOthers

\* ... or keeps only the first n bytes of the tag.
TruncateTag(i, n) ==
  /\ codec.pool[i].own
  /\ codec.pool[i].altered = "none"
  /\ Altered(i, "auth_tag", [codec.pool[i].intent.auth_tag EXCEPT !.bytes.len = n])

\* handler.decrypt(intent)
Decrypt(i) ==
  /\ codec' = [codec EXCEPT !.last = Some([entry |-> codec.pool[i],
                                           result |-> decrypt(codec.key[1],
                                                              codec.pool[i].intent)])]
  /\ UNCHANGED codecOthers

NoReturn == [op |-> "none", arg |-> Null, value |-> Null]

Init ==
  /\ config \in Configs
  /\ now = 0
  /\ entropy = 0
  /\ wf = [key |-> WorkflowKey, run |-> IdleRun]
  /\ bots = <<>>
  /\ trades = <<>>
  /\ ret = NoReturn
  /\ pay = NewClient
  /\ engine = NewEngine(0)
  /\ engineLog = NewEngineLog(engine)
  /\ fn = NoCall
  /\ codec = NoHandler

Next ==
  \/ \E prompt \in Prompts : WfRun(prompt)
  \/ WfParserAnswers
  \/ WfParserFails
  \/ \E met \in BOOLEAN : WfConditionsResolve(met)
  \/ WfConditionsReject
  \/ WfExecuteResolves
  \/ Tick

Spec == Init /\ [][Next]_vars

InitDash ==
  /\ config = DashConfig
  /\ now = 0
  /\ entropy = 0
  /\ wf = [key |-> WorkflowKey, run |-> IdleRun]
  /\ bots = <<>>
  /\ trades = <<>>
  /\ ret = NoReturn
  /\ pay = NewClient
  /\ engine = NewEngine(0)
  /\ engineLog = NewEngineLog(engine)
  /\ fn = NoCall
  /\ codec = NoHandler

NextDash ==
  \/ \E botConfig \in BotConfigs : RegisterBot(botConfig)
  \/ \E prompt \in Prompts, botName \in BotNames : SubmitTrade(prompt, botName)
  \/ \E prompt \in Prompts, botName \in BotNames : SubmitTradeRejected(prompt, botName)
  \/ \E tradeId \in DOMAIN trades \cup {UnknownTradeId} : CancelTrade(tradeId)
  \/ \E tradeId \in DOMAIN trades : TradeParserAnswers(tradeId)
  \/ \E tradeId \in DOMAIN trades : TradeParserFails(tradeId)
  \/ \E tradeId \in DOMAIN trades, met \in BOOLEAN : TradeConditionsResolve(tradeId, met)
  \/ \E tradeId \in DOMAIN trades : TradeExecuteResolves(tradeId)

SpecDash == InitDash /\ [][NextDash]_vars

\* The awaited parser request, condition check and execution of a background run
\* settle: some run that is under way takes its next step.
TradeRunSettles ==
  \E tradeId \in DOMAIN trades :
    \/ TradeParserAnswers(tradeId)
    \/ TradeParserFails(tradeId)
    \/ \E met \in BOOLEAN : TradeConditionsResolve(tradeId, met)
    \/ TradeExecuteResolves(tradeId)

SpecDashFair == SpecDash /\ WF_trades(TradeRunSettles)

InitPay ==
  /\ config = DashConfig
  /\ now = 0
  /\ entropy = 0
  /\ wf = [key |-> WorkflowKey, run |-> IdleRun]
  /\ bots = <<>>
  /\ trades = <<>>
  /\ ret = NoReturn
  /\ pay = NewClient
  /\ engine = NewEngine(0)
  /\ engineLog = NewEngineLog(engine)
  /\ fn = NoCall
  /\ codec = NoHandler

NextPay ==
  \/ \E toolUrl \in ToolUrls, cost \in ToolCosts : FetchWithPayment(toolUrl, cost)
  \/ \E c \in 1..Len(pay.calls), outcome \in FetchOutcomes : FirstSettles(c, outcome)
  \/ \E c \in 1..Len(pay.calls), resolved \in BOOLEAN : SignSettles(c, resolved)
  \/ \E c \in 1..Len(pay.calls), outcome \in FetchOutcomes : RetrySettles(c, outcome)

SpecPay == InitPay /\ [][NextPay]_vars

\* The client together with a caller that keeps and writes to the arrays
\* getPaymentRecords hands out.
NextLedger ==
  \/ /\ Len(pay.calls) < MaxLedgerCalls
     /\ \E toolUrl \in ToolUrls, cost \in ToolCosts : FetchWithPayment(toolUrl, cost)
  \/ \E c \in 1..Len(pay.calls), outcome \in FetchOutcomes : FirstSettles(c, outcome)
  \/ \E c \in 1..Len(pay.calls), resolved \in BOOLEAN : SignSettles(c, resolved)
  \/ \E c \in 1..Len(pay.calls), outcome \in FetchOutcomes : RetrySettles(c, outcome)
  \/ GetPaymentRecords
  \/ CallerPushes
  \/ CallerPops
  \/ \E k \in CallerIndices, status \in {"success", "failed"} : CallerSetsStatus(k, status)
  \/ \E k \in CallerIndices, cost \in CallerCosts : CallerSetsCost(k, cost)

SpecLedger == InitPay /\ [][NextLedger]_vars

InitEngine ==
  /\ config = DashConfig
  /\ now = 0
  /\ entropy = 0
  /\ wf = [key |-> WorkflowKey, run |-> IdleRun]
  /\ bots = <<>>
  /\ trades = <<>>
  /\ ret = NoReturn
  /\ pay = NewClient
  /\ engine \in {NewEngine(b) : b \in Budgets}
  /\ engineLog = NewEngineLog(engine)
  /\ fn = NoCall
  /\ codec = NoHandler

NextEngine ==
  \/ \E toolName \in EngineTools, cost \in EngineCosts : ShouldPurchase(toolName, cost)
  \/ \E amount \in EngineCosts : RecordSpend(amount)

SpecEngine == InitEngine /\ [][NextEngine]_vars

InitFn ==
  /\ config = DashConfig
  /\ now = 0
  /\ entropy = 0
  /\ wf = [key |-> WorkflowKey, run |-> IdleRun]
  /\ bots = <<>>
  /\ trades = <<>>
  /\ ret = NoReturn
  /\ pay = NewClient
  /\ engine = NewEngine(0)
  /\ engineLog = NewEngineLog(engine)
  /\ fn = NoCall
  /\ codec = NoHandler

NextFn ==
  \/ /\ fn.op = "none"
     /\ \E dsl \in ParserDSLs, limits \in LimitInputs : ValidateStrategy(dsl, limits)
  \/ Revalidate
  \/ /\ fn.op = "none"
     /\ \E strategy \in ParserDSLs, rc \in RiskConfigInputs : CheckRisk(strategy, rc)
  \/ /\ fn.op = "none"
     /\ \E strategy \in ExecutorStrategies, simulate \in BOOLEAN : Execute(strategy, simulate, 1)

SpecFn == InitFn /\ [][NextFn]_vars

InitCodec ==
  /\ config = DashConfig
  /\ now = 0
  /\ entropy = 0
  /\ wf = [key |-> WorkflowKey, run |-> IdleRun]
  /\ bots = <<>>
  /\ trades = <<>>
  /\ ret = NoReturn
  /\ pay = NewClient
  /\ engine = NewEngine(0)
  /\ engineLog = NewEngineLog(engine)
  /\ fn = NoCall
  /\ codec \in {NewHandler(key) : key \in CodecKeys}

NextCodec ==
  \/ \E own \in BOOLEAN, strategy \in CodecStrategies : Encrypt(own, strategy)
  \/ \E i \in DOMAIN codec.pool, field \in IntentFields, j \in DOMAIN codec.pool :
       Splice(i, field, j)
  \/ \E i \in DOMAIN codec.pool, field \in IntentFields : PadHex(i, field)
  \/ \E i \in DOMAIN codec.pool, n \in TruncatedLengths : TruncateTag(i, n)
  \/ \E i \in DOMAIN codec.pool : Decrypt(i)

SpecCodec == InitCodec /\ [][NextCodec]_vars

\* ====================================================================== claims
\* Every run of AgentWorkflow.run the state holds: the directly driven one and
\* the background run of each trade.
Runs == {wf.run} \cup {trades[id].run : id \in DOMAIN trades}

RECURSIVE SumAmounts(_)
SumAmounts(actions) ==
  IF actions = <<>> THEN 0 ELSE Head(actions).amount_usdc + SumAmounts(Tail(actions))

Receipt(run) == run.result[1].receipt

\* C1: whenever run returns a receipt with status "executed", the strategy that
\* was handed to the executor has its pair in allowed_pairs, a slippage of at most
\* max_slippage_bps_hard and action amounts summing to at most max_spend_usdc_hard.
C1_ExecutedWithinHardLimits ==
  \A run \in Runs :
    (run.result # Null /\ Receipt(run).status = "executed") =>
      /\ run.executorArg # Null
      /\ \E i \in 1..Len(config.allowed_pairs) :
           config.allowed_pairs[i] = run.executorArg[1].pair
      /\ run.executorArg[1].controls.max_slippage_bps <= config.max_slippage_bps_hard
      /\ SumAmounts(run.executorArg[1].actions) <= config.max_spend_usdc_hard

\* C1 witness: an executed run whose parser asked for more slippage than the hard
\* maximum and for several actions.
C1_Witness ==
  \E run \in Runs :
    /\ run.result # Null
    /\ Receipt(run).status = "executed"
    /\ Len(run.executorArg[1].actions) > 1
    /\ run.parserOutput[1].strategy_dsl.controls.max_slippage_bps
         > config.max_slippage_bps_hard

\* C2: the executor is never invoked later than the intent's expires_at
\* (encryption time + expires_in_minutes), however long the condition checker takes.
C2_NeverExecutesAfterExpiry ==
  \A run \in Runs :
    run.executedAt # Null =>
      run.executedAt[1] <= run.encryptedIntent[1].public_metadata.expires_at

\* The parser's strategy breaks a hard limit the Limit Enforcer rejects for.
LimitBroken(dsl, cfg) ==
  \/ \A i \in 1..Len(cfg.allowed_pairs) : cfg.allowed_pairs[i] # dsl.pair
  \/ \E i \in 1..Len(dsl.actions) : dsl.actions[i].amount_usdc > cfg.max_spend_usdc_hard

\* C3: when the Limit Enforcer rejects the parser's strategy (pair outside the
\* allowlist, or an action amount above the hard cap), run ends at once with an
\* "aborted" receipt (conditions_met false, no payments, no reason codes, zero
\* spend, null execution reference), returns no encrypted intent, and calls
\* neither encryption, the condition checker, decryption nor the executor.
C3_LimitRejectionAborts ==
  \A run \in Runs :
    (run.parserOutput # Null /\ LimitBroken(run.parserOutput[1].strategy_dsl, config)) =>
      /\ run.pc = "returned"
      /\ Receipt(run).status = "aborted"
      /\ Receipt(run).conditions_met = FALSE
      /\ Receipt(run).payments = <<>>
      /\ Receipt(run).reason_codes = <<>>
      /\ Receipt(run).total_spend_usdc = 0
      /\ Receipt(run).execution_tx_hash = Null
      /\ run.result[1].encryptedIntent = Null
      /\ run.encryptions = 0
      /\ run.conditionCalls = 0
      /\ run.decryptions = 0
      /\ run.executions = 0

\* C3 witness: a run whose parser named a pair outside the allowlist has returned.
C3_Witness ==
  \E run \in Runs :
    /\ run.parserOutput # Null
    /\ \A i \in 1..Len(config.allowed_pairs) :
         config.allowed_pairs[i] # run.parserOutput[1].strategy_dsl.pair
    /\ run.pc = "returned"

\* C4: when the condition checker returns false for a validated strategy, run
\* ends with an "expired" receipt (conditions_met false, null execution reference,
\* zero spend), still returns the encrypted intent it produced, and calls neither
\* decryption, the risk re-check nor the executor.
C4_ConditionsNotMetExpires ==
  \A run \in Runs :
    run.conditionsMet = Some(FALSE) =>
      /\ run.pc = "returned"
      /\ Receipt(run).status = "expired"
      /\ Receipt(run).conditions_met = FALSE
      /\ Receipt(run).execution_tx_hash = Null
      /\ Receipt(run).total_spend_usdc = 0
      /\ run.encryptedIntent # Null
      /\ run.result[1].encryptedIntent = run.encryptedIntent
      /\ run.decryptions = 0
      /\ run.riskChecks = 0
      /\ run.executions = 0

\* C4 witness: the condition checker has answered false.
C4_Witness == \E run \in Runs : run.conditionsMet = Some(FALSE) /\ run.result # Null

\* C5: when conditions are met but the Risk Re-checker reports a violation on the
\* decrypted strategy, run ends with an "aborted" receipt with conditions_met true,
\* null execution reference and zero spend, and the executor is never invoked.
C5_RiskViolationAborts ==
  \A run \in Runs :
    (run.riskCheck # Null /\ ~run.riskCheck[1].passed) =>
      /\ run.conditionsMet = Some(TRUE)
      /\ run.pc = "returned"
      /\ Receipt(run).status = "aborted"
      /\ Receipt(run).conditions_met = TRUE
      /\ Receipt(run).execution_tx_hash = Null
      /\ Receipt(run).total_spend_usdc = 0
      /\ run.executions = 0
      /\ run.executorArg = Null

\* C5 witness: the re-check has refused a strategy whose actions sum above the cap.
C5_Witness ==
  \E run \in Runs :
    /\ run.riskCheck # Null
    /\ ~run.riskCheck[1].passed
    /\ SumAmounts(run.decrypted[1].actions) > config.max_spend_usdc_hard
    /\ run.result # Null

\* C6: when the risk re-check passes the executor runs, and the receipt's
\* total_spend_usdc is the sum of the decrypted strategy's action amounts whatever
\* the execution's outcome; the status is "executed" if it succeeded and "aborted"
\* otherwise, and execution_tx_hash is the executor's reference.
C6_ExecutionReceipt ==
  \A run \in Runs :
    /\ (run.riskCheck # Null /\ run.riskCheck[1].passed) =>
         /\ run.executions = 1
         /\ run.executorArg = run.decrypted
    /\ (run.executions > 0 /\ run.pc = "returned") =>
         /\ Receipt(run).total_spend_usdc = SumAmounts(run.decrypted[1].actions)
         /\ Receipt(run).status =
              (IF run.executionResult[1].success THEN "executed" ELSE "aborted")
         /\ Receipt(run).execution_tx_hash = run.executionResult[1].tx_hash

\* C6 witness: a run with two actions has gone through the executor and returned.
C6_Witness ==
  \E run \in Runs :
    /\ run.executions = 1
    /\ run.pc = "returned"
    /\ Len(run.decrypted[1].actions) = 2
    /\ Receipt(run).total_spend_usdc = 400

C8_SingleConditionCheck ==
  \A run \in Runs :
    /\ run.conditionCalls <= 1
    /\ run.conditionCalls = 1 =>
         /\ run.validation # Null
         /\ run.validation[1].valid
         /\ ~LimitBroken(run.parserOutput[1].strategy_dsl, config)
         /\ run.encryptions = 1
         /\ run.encryptedIntent # Null
    /\ run.decryptions > 0 =>
         /\ run.conditionCalls = 1
         /\ run.conditionsMet = Some(TRUE)

\* C8 witness: the checker was called once, answered true, and decryption followed.
C8_Witness ==
  \E run \in Runs :
    run.conditionCalls = 1 /\ run.conditionsMet = Some(TRUE) /\ run.decryptions = 1

\* The parser call failed: the request failed, timed out, was answered non-2xx or
\* with unreadable JSON, or with a strategy_dsl that violates the schema.
ParserCallFailed(run) ==
  run.fetched # Null /\ ~(run.fetched[1].kind = "ok" /\ run.fetched[1].schemaOk)

\* The class of the error the adapter raises for each kind of failure.
ParserErrorClass(kind) ==
  CASE kind = "network_error" -> "FetchError"
    [] kind = "abort" -> "Error"
    [] kind = "non_ok" -> "Error"
    [] kind = "bad_json" -> "SyntaxError"
    [] kind = "ok" -> "ZodError"

\* C9: when the parser call fails, run rejects with the parser's error after
\* exactly one parser request, and neither validation, encryption, the condition
\* check, execution nor the construction of a receipt takes place.
C9_ParserFailurePropagates ==
  \A run \in Runs :
    ParserCallFailed(run) =>
      /\ run.pc = "threw"
      /\ run.error # Null
      /\ run.error[1][1] = ParserErrorClass(run.fetched[1].kind)
      /\ run.requests = 1
      /\ run.parserOutput = Null
      /\ run.validations = 0
      /\ run.encryptions = 0
      /\ run.conditionCalls = 0
      /\ run.decryptions = 0
      /\ run.executions = 0
      /\ run.receipts = <<>>
      /\ run.result = Null

\* C9 witness: the endpoint answered 2xx with a strategy_dsl outside the schema.
C9_Witness ==
  \E run \in Runs :
    /\ run.fetched # Null
    /\ run.fetched[1].kind = "ok"
    /\ ~run.fetched[1].schemaOk
    /\ run.pc = "threw"

StatusRank(status) ==
  CASE status = "pending" -> 0
    [] status = "monitoring" -> 1
    [] status \in {"executed", "failed", "expired"} -> 2

\* C10: a trade's status only moves forward along pending -> monitoring ->
\* {executed, failed, expired}, and once it is executed, failed or expired it
\* never changes again, for every interleaving of submitTrade, the background run
\* and cancelTrade.
C10_TradeStatusMonotone ==
  [][\A id \in DOMAIN trades :
       /\ id \in DOMAIN trades'
       /\ StatusRank(trades'[id].status) >= StatusRank(trades[id].status)
       /\ trades[id].status \in {"executed", "failed", "expired"} =>
            trades'[id].status = trades[id].status]_vars

\* A trade that was cancelled while its background run was still under way: only
\* cancelTrade writes "expired" before the run has settled.
CancelledMidRun(trade) == trade.status = "expired" /\ ~Finished(trade.run)

\* C11: once cancelTrade(id) has returned true for a trade whose run is under way,
\* that run never decrypts or executes, and the trade stays marked expired
\* whatever the background run does.
C11_CancelStopsProgress ==
  [][\A id \in DOMAIN trades :
       CancelledMidRun(trades[id]) =>
         /\ trades'[id].run.decryptions = trades[id].run.decryptions
         /\ trades'[id].run.executions = trades[id].run.executions
         /\ trades'[id].status = "expired"]_vars

\* The step is a call of the API operation op: it leaves that operation's return
\* behind (two calls in a row with the same argument and result leave the state
\* as it was).
Called(op) == ret'.op = op /\ (ret.op # op \/ ret' # ret)

Cancellable(tbl, tradeId) ==
  /\ tradeId \in DOMAIN tbl
  /\ tbl[tradeId].status \in {"pending", "monitoring"}

\* C12: cancelTrade(id) returns true exactly when the trade exists with status
\* pending or monitoring, and then marks it expired and changes nothing else; for
\* an unknown id or an executed, failed or expired trade it returns false and
\* the trade table is unchanged; a status that has left pending / monitoring never
\* comes back, so a second cancelTrade of the same trade returns false.
C12_CancelTradeResult ==
  [][/\ Called("cancelTrade") =>
          LET tradeId == ret'.arg[1]
          IN /\ ret'.value = Some(Flag(Cancellable(trades, tradeId)))
             /\ IF Cancellable(trades, tradeId)
                THEN trades' = [trades EXCEPT ![tradeId].status = "expired"]
                ELSE trades' = trades
     /\ \A id \in DOMAIN trades :
          ~Cancellable(trades, id) => ~Cancellable(trades', id)]_vars

\* cancelTrade has just returned false for a trade it had cancelled before (the
\* trade is expired although its run has not settled).
C12_Witness ==
  /\ ret.op = "cancelTrade"
  /\ ret.value = Some(Flag(FALSE))
  /\ ret.arg[1] \in DOMAIN trades
  /\ CancelledMidRun(trades[ret.arg[1]])

BotUsable(registry, botName) ==
  botName \in DOMAIN registry /\ registry[botName].enabled

\* C13: submitTrade for an unregistered or disabled bot throws and leaves the
\* trade table unchanged; for a registered enabled bot it adds exactly one trade,
\* whose status is pending or monitoring when submitTrade returns, and leaves the
\* other trades alone.
C13_SubmitTradeResult ==
  [][Called("submitTrade") =>
       IF BotUsable(bots, ret'.arg[1])
       THEN LET tradeId == ret'.value[1]
            IN /\ tradeId \notin DOMAIN trades
               /\ DOMAIN trades' = DOMAIN trades \cup {tradeId}
               /\ \A id \in DOMAIN trades : trades'[id] = trades[id]
               /\ trades'[tradeId].status \in {"pending", "monitoring"}
               /\ trades'[tradeId].bot_name = ret'.arg[1]
       ELSE /\ ret'.value[1][1] = "Error"
            /\ trades' = trades]_vars

\* submitTrade has just thrown for a registered bot that is disabled, after a
\* trade had been accepted while that bot was enabled.
C13_Witness ==
  /\ ret.op = "submitTrade"
  /\ ret.value = Some(<<"Error", "is disabled">>)
  /\ ret.arg[1] \in DOMAIN bots
  /\ \E id \in DOMAIN trades : trades[id].bot_name = ret.arg[1]

\* ---- X402PaymentClient
Calls == {pay.calls[c] : c \in 1..Len(pay.calls)}

\* The records of the ledger, by value, in ledger order.
LedgerValues(client) == [i \in 1..Len(client.records) |-> client.heap[client.records[i]]]

\* The ledger holds a record of the payment with reference txHash (in one of the
\* given statuses).
Recorded(client, txHash, statuses) ==
  \E i \in 1..Len(client.records) :
    /\ LedgerValues(client)[i].tx_hash = txHash
    /\ LedgerValues(client)[i].status \in statuses

RECURSIVE SumOfCosts(_, _)
SumOfCosts(ledger, indices) ==
  IF indices = {} THEN 0
  ELSE LET i == CHOOSE j \in indices : TRUE
       IN ledger[i].cost_usdc + SumOfCosts(ledger, indices \ {i})

\* C14: whatever fetchWithPayment calls were made and however they interleaved,
\* getTotalSpent() is the sum of cost_usdc over the ledger's records with status
\* "success"; the "failed" ones add nothing.
C14_TotalSpentIsSuccessSum ==
  getTotalSpent(pay) =
    SumOfCosts(LedgerValues(pay),
               {i \in 1..Len(pay.records) : LedgerValues(pay)[i].status = "success"})

\* Two interleaved calls have left a failed record ahead of a successful one.
C14_Witness ==
  /\ Len(pay.records) = 2
  /\ LedgerValues(pay)[1].status = "failed"
  /\ LedgerValues(pay)[2].status = "success"
  /\ LedgerValues(pay)[1].tx_hash = <<"0x", 2>>
  /\ getTotalSpent(pay) > 0

\* C15: when the first response was 402 and the paid retry comes back non-OK,
\* fetchWithPayment throws the retry-failure error and the ledger then holds that
\* attempt's record with status "failed"; no step removes or moves a record.
C15_FailedRetryRecorded ==
  [][/\ \A c \in 1..Len(pay.calls) :
          (/\ pay.calls[c].pc = "retrying"
           /\ pay'.calls[c].retryResponse # Null
           /\ ~Ok(pay'.calls[c].retryResponse[1])) =>
            /\ pay'.calls[c].pc = "threw"
            /\ pay'.calls[c].error[1][1] = "Paid tool retry failed"
            /\ Recorded(pay', pay.calls[c].txHash[1], {"failed"})
            /\ Len(pay'.records) = Len(pay.records) + 1
     /\ Len(pay'.records) >= Len(pay.records)
     /\ SubSeq(pay'.records, 1, Len(pay.records)) = pay.records]_vars

\* A call whose paid retry came back 500 has thrown; its record is in the ledger.
C15_Witness ==
  \E call \in Calls :
    /\ call.pc = "threw"
    /\ call.firstResponse # Null
    /\ call.firstResponse[1].status = PaymentRequired
    /\ call.retryResponse # Null
    /\ call.retryResponse[1].status = 500
    /\ Recorded(pay, call.txHash[1], {"failed"})

\* C16: when the first response is not 402, signPayment is never invoked and the
\* ledger is left as it was: an OK response returns the parsed payload (the call
\* rejects if the body does not parse), a non-OK response throws, and no record
\* is created or appended.
C16_NoPaymentWithout402 ==
  [][\A c \in 1..Len(pay.calls) :
       LET before == pay.calls[c]
           after == pay'.calls[c]
       IN (/\ after.firstResponse # Null
           /\ after.firstResponse[1].status # PaymentRequired) =>
            /\ after.signArgs = <<>>
            /\ after.record = Null
            /\ Len(after.requests) = 1
            /\ before.pc = "first" =>
                 /\ pay'.records = pay.records
                 /\ pay'.heap = pay.heap
                 /\ IF Ok(after.firstResponse[1])
                    THEN IF after.firstResponse[1].json # Null
                         THEN /\ after.pc = "returned"
                              /\ after.result = after.firstResponse[1].json
                         ELSE /\ after.pc = "threw"
                              /\ after.error[1][1] = "SyntaxError"
                    ELSE /\ after.pc = "threw"
                         /\ after.error[1][1] = "Tool request failed"]_vars

\* One call has returned the payload of an OK first response and another has
\* thrown on a 500 first response, with the ledger still empty.
C16_Witness ==
  /\ pay.records = <<>>
  /\ \E call \in Calls :
       /\ call.pc = "returned"
       /\ call.firstResponse[1].status = 200
       /\ call.retryResponse = Null
  /\ \E call \in Calls :
       /\ call.pc = "threw"
       /\ call.firstResponse # Null
       /\ call.firstResponse[1].status = 500

\* C17: every payment attempt is recorded: once a fetchWithPayment call in which
\* signPayment returned a transaction reference has finished, by returning or by
\* throwing, the ledger holds a record carrying that reference.
C17_EveryPaymentRecorded ==
  \A call \in Calls :
    (call.txHash # Null /\ call.pc \in {"returned", "threw"}) =>
      Recorded(pay, call.txHash[1], {"success", "failed"})

\* C18: the record is appended before the retry: while the paid retry request is
\* pending, the ledger already holds that attempt's record with status "success".
C18_RecordedBeforeRetry ==
  \A call \in Calls :
    call.pc = "retrying" => Recorded(pay, call.txHash[1], {"success"})

\* C19: nothing the caller does to an array returned by getPaymentRecords (adding
\* or removing entries, assigning to a field of a record) changes what
\* getPaymentRecords or getTotalSpent return afterwards: only the steps of
\* fetchWithPayment calls change the ledger.
C19_LedgerNotMutableFromOutside ==
  [][pay'.calls = pay.calls =>
       /\ LedgerValues(pay') = LedgerValues(pay)
       /\ getTotalSpent(pay') = getTotalSpent(pay)]_vars

\* ---- EconomicReasoningEngine
\* C20: shouldPurchase(tool, cost) returns true exactly when cost is at most the
\* budget remaining at the time of the call: a cost equal to the remaining budget
\* proceeds, a cost above it is skipped.
C20_ShouldPurchaseIffAffordable ==
  [][(/\ engine'.op = "shouldPurchase"
      /\ Len(engine'.reasonCodes) = Len(engine.reasonCodes) + 1) =>
       LET code == engine'.reasonCodes[Len(engine'.reasonCodes)]
       IN engine'.value = Some(code.cost_usdc <= engine.budgetRemaining)]_vars

\* After a debit, a purchase costing exactly what is left has been approved.
C20_Witness ==
  /\ engine.op = "shouldPurchase"
  /\ engine.value = Some(TRUE)
  /\ LET code == engine.reasonCodes[Len(engine.reasonCodes)]
     IN /\ code.cost_usdc = code.budget_remaining_usdc
        /\ code.cost_usdc > 0
        /\ code.budget_remaining_usdc \notin Budgets

\* The calls of one operation made on the engine so far, in call order.
EngineCalls(op) == SelectSeq(engineLog.calls, LAMBDA call : call.op = op)

\* C21: every shouldPurchase call appends exactly one ReasonCode, in call order,
\* whatever it returns: after n calls getReasonCodes has length n, and the k-th
\* code carries the k-th call's tool and cost, the budget remaining at that
\* decision, and decision "proceed" exactly when that call returned true.
C21_OneReasonCodePerDecision ==
  LET decisions == EngineCalls("shouldPurchase")
      codes == getReasonCodes(engine)
  IN /\ Len(codes) = Len(decisions)
     /\ \A k \in 1..Len(decisions) :
          /\ codes[k].tool = decisions[k].tool
          /\ codes[k].cost_usdc = decisions[k].amount
          /\ codes[k].budget_remaining_usdc = decisions[k].budget
          /\ codes[k].decision \in {"proceed", "skip"}
          /\ codes[k].decision = "proceed" <=> decisions[k].returned = Some(TRUE)

\* A declined purchase and, after it, an approved one have both been logged.
C21_Witness ==
  LET codes == getReasonCodes(engine)
  IN /\ Len(codes) >= 2
     /\ codes[1].decision = "skip"
     /\ codes[2].decision = "proceed"
     /\ codes[2].cost_usdc > 0

RECURSIVE SumAmountsOf(_)
SumAmountsOf(calls) ==
  IF calls = <<>> THEN 0 ELSE Head(calls).amount + SumAmountsOf(Tail(calls))

\* C22: deciding does not debit: after any sequence of shouldPurchase and
\* recordSpend calls the remaining budget is the initial budget minus the sum of
\* the amounts passed to recordSpend, so an approved purchase that is never
\* recorded leaves the budget as it was.
C22_OnlyRecordSpendDebits ==
  getBudgetRemaining(engine) =
    engineLog.initialBudget - SumAmountsOf(EngineCalls("recordSpend"))

\* A purchase was approved and never recorded, while another amount was debited.
C22_Witness ==
  /\ \E k \in 1..Len(engineLog.calls) :
       /\ engineLog.calls[k].op = "shouldPurchase"
       /\ engineLog.calls[k].returned = Some(TRUE)
       /\ engineLog.calls[k].amount = 3
  /\ Len(EngineCalls("recordSpend")) = 1
  /\ EngineCalls("recordSpend")[1].amount = 5
  /\ getBudgetRemaining(engine) = engineLog.initialBudget - 5

\* ---- validateStrategy, checkRisk and execute as functions
Validated == fn.op = "validateStrategy"

\* The strategy validateStrategy returned is within the slippage limit, and it
\* was clamped, with a note, exactly when the input was above the limit.
ClampedWithinLimit ==
  LET out == fn.result.strategy[1]
      over == fn.dsl.controls.max_slippage_bps > fn.limits.max_slippage_bps
  IN /\ out.controls.max_slippage_bps <= fn.limits.max_slippage_bps
     /\ over => /\ out = [fn.dsl EXCEPT !.controls.max_slippage_bps =
                                          fn.limits.max_slippage_bps]
                /\ Len(fn.result.clamped) = 1
     /\ ~over => fn.result.clamped = <<>> /\ out = fn.dsl

Unchanged(result, strategy) ==
  result = [valid |-> TRUE, strategy |-> Some(strategy), errors |-> <<>>, clamped |-> <<>>]

\* C23 as stated: a strategy that passes validateStrategy comes back with its
\* slippage within the limit (clamped with a note, which does not fail the
\* validation), and validating the returned strategy again under the same limits
\* yields valid=true, no clamp and the same strategy.
C23_ClampIdempotent ==
  (Validated /\ fn.result.valid) =>
    /\ ClampedWithinLimit
    /\ fn.again # Null => Unchanged(fn.again[1], fn.result.strategy[1])

\* C23 amended: the second validation never clamps again, and it yields
\* valid=true and the same strategy whenever the hard slippage maximum is itself
\* a slippage the schema accepts.
C23_ClampIdempotentUnderSchemaLimits ==
  (Validated /\ fn.result.valid) =>
    /\ ClampedWithinLimit
    /\ fn.again # Null =>
         /\ fn.again[1].clamped = <<>>
         /\ (/\ fn.limits.max_slippage_bps >= MinSlippageBps
             /\ fn.limits.max_slippage_bps <= MaxSlippageBps) =>
              Unchanged(fn.again[1], fn.result.strategy[1])

\* A strategy clamped from 100 to 75 bps has been validated a second time.
C23_Witness ==
  /\ Validated
  /\ fn.result.valid
  /\ fn.dsl.controls.max_slippage_bps = 100
  /\ fn.limits.max_slippage_bps = 75
  /\ fn.again # Null
  /\ fn.again[1].valid

\* The amounts above the cap, in action order.
RECURSIVE AmountsAbove(_, _)
AmountsAbove(actions, cap) ==
  IF actions = <<>> THEN <<>>
  ELSE (IF Head(actions).amount_usdc > cap THEN <<Head(actions).amount_usdc>> ELSE <<>>)
       \o AmountsAbove(Tail(actions), cap)

SpendErrorsOf(errors) == SelectSeq(errors, LAMBDA e : e[1] = "spend")

\* C24: for a schema-valid strategy with an action above limits.max_spend_usdc,
\* validateStrategy returns valid=false and strategy=null, with one error per
\* violating action naming its amount; no amount is clamped or reduced.
C24_OverCapActionRejected ==
  (/\ Validated
   /\ SchemaValid(fn.dsl)
   /\ AmountsAbove(fn.dsl.actions, fn.limits.max_spend_usdc) # <<>>) =>
    /\ ~fn.result.valid
    /\ fn.result.strategy = Null
    /\ LET spend == SpendErrorsOf(fn.result.errors)
           above == AmountsAbove(fn.dsl.actions, fn.limits.max_spend_usdc)
       IN /\ Len(spend) = Len(above)
          /\ \A i \in 1..Len(above) : spend[i][2] = above[i]
    /\ \A i \in 1..Len(fn.result.clamped) : fn.result.clamped[i][1] # "spend"

\* Both actions of a strategy were above the cap.
C24_Witness ==
  /\ Validated
  /\ SchemaValid(fn.dsl)
  /\ Len(AmountsAbove(fn.dsl.actions, fn.limits.max_spend_usdc)) = 2
  /\ Len(fn.result.errors) = 2

\* C25: errors dominate clamps in validateStrategy: with any error the result is
\* valid=false and strategy=null even when something was clamped, the clamp note
\* of a slippage above the limit is reported together with the errors of the
\* same call, and valid=true holds exactly when the error list is empty.
C25_ErrorsDominateClamps ==
  Validated =>
    /\ fn.result.valid <=> fn.result.errors = <<>>
    /\ fn.result.valid <=> fn.result.strategy # Null
    /\ SchemaValid(fn.dsl) =>
         (Len(fn.result.clamped) = 1
            <=> fn.dsl.controls.max_slippage_bps > fn.limits.max_slippage_bps)

\* One call reported a slippage clamp and a pair-allowlist error.
C25_Witness ==
  /\ Validated
  /\ ~fn.result.valid
  /\ fn.result.strategy = Null
  /\ Len(fn.result.clamped) = 1
  /\ \E i \in 1..Len(fn.result.errors) : fn.result.errors[i][1] = "pair"

\* The checks of checkRisk that the strategy violates under the config.
RiskChecksViolated(strategy, rc) ==
  {check \in {"pair", "spend", "slippage", "expiry"} :
     \/ check = "pair" /\ \A i \in 1..Len(rc.allowed_pairs) : rc.allowed_pairs[i] # strategy.pair
     \/ check = "spend" /\ SumAmounts(strategy.actions) > rc.max_spend_usdc
     \/ check = "slippage" /\ strategy.controls.max_slippage_bps > rc.max_slippage_bps
     \/ check = "expiry" /\ strategy.controls.expires_in_minutes > rc.max_expires_minutes}

\* C26: checkRisk evaluates its four checks (pair allowlist, aggregate spend,
\* slippage, expiry) independently: the violations list has exactly one entry
\* per violated check, and passed is true exactly when no check is violated.
C26_RiskChecksIndependent ==
  fn.op = "checkRisk" =>
    LET violated == RiskChecksViolated(fn.strategy, fn.config)
        listed == fn.result.violations
    IN /\ Len(listed) = Cardinality(violated)
       /\ {listed[i] : i \in 1..Len(listed)} = violated
       /\ fn.result.passed <=> violated = {}

\* All four checks were violated by one strategy.
C26_Witness ==
  /\ fn.op = "checkRisk"
  /\ Len(fn.result.violations) = 4
  /\ Len(fn.strategy.actions) = 2
  /\ \A i \in 1..2 : fn.strategy.actions[i].amount_usdc <= fn.config.max_spend_usdc

\* ---------------------------------------------------------------- C30
Executed == fn.op = "execute"
AllSwaps(strategy) ==
  /\ Len(strategy.actions) >= 1
  /\ \A i \in 1..Len(strategy.actions) : strategy.actions[i].type = "swap"
NotImplemented == "Real execution not yet implemented"

\* C30 as stated: execute returns success=false with a null reference for a
\* strategy with zero actions or a non-swap action; in non-simulation mode it
\* always returns success=false with the not-implemented error; it returns
\* success=true with a non-null reference only in simulation mode for a strategy
\* with at least one action, all of type swap.
C30_ExecuteOutcomes ==
  Executed =>
    /\ ~AllSwaps(fn.strategy) =>
         (~fn.result.success /\ fn.result.tx_hash = Null)
    /\ ~fn.simulate =>
         (~fn.result.success /\ fn.result.error = NotImplemented)
    /\ (fn.result.success /\ fn.result.tx_hash # Null) =>
         (fn.simulate /\ AllSwaps(fn.strategy))

\* C30 amended: as above, except that in non-simulation mode the result is always
\* success=false with a null reference, and the error is the not-implemented one
\* exactly when the strategy has at least one action and all are swaps (an empty
\* or non-swap strategy reports the fail-fast error in either mode); in
\* simulation mode such a strategy always succeeds with a non-null reference.
C30_ExecuteOutcomesFailFastFirst ==
  Executed =>
    /\ ~AllSwaps(fn.strategy) =>
         /\ ~fn.result.success
         /\ fn.result.tx_hash = Null
         /\ fn.result.error # NotImplemented
    /\ ~fn.simulate =>
         /\ ~fn.result.success
         /\ fn.result.tx_hash = Null
         /\ (fn.result.error = NotImplemented) = AllSwaps(fn.strategy)
    /\ (fn.simulate /\ AllSwaps(fn.strategy)) =>
         (fn.result.success /\ fn.result.tx_hash # Null)
    /\ fn.result.success => (fn.simulate /\ AllSwaps(fn.strategy) /\ fn.result.tx_hash # Null)

\* C30 witness: a non-simulating executor was handed two swaps and refused.
C30_Witness ==
  /\ Executed
  /\ ~fn.simulate
  /\ Len(fn.strategy.actions) = 2
  /\ AllSwaps(fn.strategy)
  /\ fn.result.error = NotImplemented

\* ---------------------------------------------------------------- C27
OneActionAboveCap(dsl, cfg) ==
  \E i \in 1..Len(dsl.actions) : dsl.actions[i].amount_usdc > cfg.max_spend_usdc_hard

\* Every action is within the cap, the actions together are not, and nothing else
\* is wrong with the strategy.
OnlySumAboveCap(dsl, cfg) ==
  /\ SchemaValid(dsl)
  /\ Includes(cfg.allowed_pairs, dsl.pair)
  /\ ~OneActionAboveCap(dsl, cfg)
  /\ SumAmounts(dsl.actions) > cfg.max_spend_usdc_hard

\* C27: in run, a parser strategy with one action above the hard cap is rejected
\* by the Limit Enforcer and never encrypted; a strategy whose actions are each
\* within the cap but sum above it passes the Limit Enforcer and is encrypted, and
\* once conditions are met it is decrypted and refused by the Risk Re-checker for
\* its spend; in neither case is the executor called.
C27_DualPassCatchesOverspend ==
  \A run \in Runs :
    run.parserOutput # Null =>
      LET dsl == run.parserOutput[1].strategy_dsl
      IN /\ OneActionAboveCap(dsl, config) =>
              /\ run.validation # Null
              /\ ~run.validation[1].valid
              /\ run.encryptions = 0
              /\ run.encryptedIntent = Null
              /\ run.riskChecks = 0
              /\ run.executions = 0
         /\ OnlySumAboveCap(dsl, config) =>
              /\ run.validation # Null
              /\ run.validation[1].valid
              /\ run.encryptions = 1
              /\ run.encryptedIntent # Null
              /\ run.conditionsMet = Some(TRUE) =>
                   /\ run.decryptions = 1
                   /\ run.riskCheck # Null
                   /\ ~run.riskCheck[1].passed
                   /\ Includes(run.riskCheck[1].violations, "spend")
              /\ run.executions = 0
              /\ run.executorArg = Null

\* C27 witness: two actions of 200 under a cap of 300 went through the Limit
\* Enforcer and encryption, and the run returned after the re-check refused them.
C27_Witness ==
  \E run \in Runs :
    /\ run.parserOutput # Null
    /\ OnlySumAboveCap(run.parserOutput[1].strategy_dsl, config)
    /\ Len(run.parserOutput[1].strategy_dsl.actions) = 2
    /\ run.encryptions = 1
    /\ run.riskCheck # Null
    /\ ~run.riskCheck[1].passed
    /\ run.pc = "returned"

\* ---------------------------------------------------------------- C28
Unaltered(entry) == entry.own /\ entry.altered = "none"

ForeignOrAltered(entry) == ~entry.own \/ entry.altered \in IntentFields

\* C29: decrypt of an intent encrypted under another key, or of an intent whose
\* ciphertext, nonce or tag was altered, throws and returns no strategy; and when
\* decrypt returns, it returns exactly the strategy that was encrypted.
C29_DecryptFailsClosed ==
  codec.last # Null =>
    /\ ForeignOrAltered(codec.last[1].entry) =>
         /\ ~codec.last[1].result.ok
         /\ codec.last[1].result.strategy = Null
    /\ codec.last[1].result.ok =>
         codec.last[1].result.strategy = Some(codec.last[1].entry.strategy)

\* ---------------------------------------------------------------- C32
\* C32: inside run the Risk Re-checker never reports an expiry violation, whatever
\* the strategy and the configuration, so a refusal by the re-check always names
\* the pair, the aggregate spend or the slippage.
C32_ExpiryRecheckAlwaysPasses ==
  \A run \in Runs :
    run.riskCheck # Null =>
      /\ ~Includes(run.riskCheck[1].violations, "expiry")
      /\ ~run.riskCheck[1].passed =>
           \/ Includes(run.riskCheck[1].violations, "pair")
           \/ Includes(run.riskCheck[1].violations, "spend")
           \/ Includes(run.riskCheck[1].violations, "slippage")

\* C32 witness: the re-check refused a decrypted strategy with the longest expiry
\* the parser can ask for.
C32_Witness ==
  \E run \in Runs :
    /\ run.riskCheck # Null
    /\ ~run.riskCheck[1].passed
    /\ run.decrypted[1].controls.expires_in_minutes = 2

AllGatesPassed(run) ==
  /\ run.validation # Null
  /\ run.validation[1].valid
  /\ run.conditionsMet = Some(TRUE)
  /\ run.riskCheck # Null
  /\ run.riskCheck[1].passed

\* C38: in every receipt run returns, execution_tx_hash is non-null exactly when
\* the status is "executed"; the status is "executed" exactly when validation
\* passed, the condition checker returned true and the risk re-check passed;
\* "expired" implies conditions_met = false; and total_spend_usdc is non-zero only
\* when the status is "executed".
C38_ReceiptConsistent ==
  \A run \in Runs :
    run.result # Null =>
      /\ (Receipt(run).execution_tx_hash # Null) = (Receipt(run).status = "executed")
      /\ (Receipt(run).status = "executed") = AllGatesPassed(run)
      /\ Receipt(run).status = "expired" => Receipt(run).conditions_met = FALSE
      /\ Receipt(run).total_spend_usdc # 0 => Receipt(run).status = "executed"
      /\ Receipt(run).status \in {"executed", "aborted", "expired"}

\* C38 witness: a run whose strategy has two actions went through all gates and
\* returned its receipt.
C38_Witness ==
  \E run \in Runs :
    /\ run.result # Null
    /\ AllGatesPassed(run)
    /\ Len(run.decrypted[1].actions) = 2
    /\ Receipt(run).execution_tx_hash # Null

\* ---------------------------------------------------------------- C33
\* The parser's strategy with its slippage replaced by the hard maximum.
ClampedCopy(dsl, cfg) ==
  [dsl EXCEPT !.controls.max_slippage_bps = cfg.max_slippage_bps_hard]

\* validateStrategy accepted the run's strategy and clamped its slippage.
ClampedRun(run) ==
  /\ run.validation # Null
  /\ run.validation[1].valid
  /\ run.validation[1].clamped # <<>>

\* C33: once validation has clamped the slippage, every later stage of run is
\* given the clamped copy: the strategy that is encrypted, the condition
\* checker's argument, the decrypted strategy the risk re-check and the executor
\* work on, and validated_strategy in the receipt of the expired, risk-aborted and
\* executed paths; the strategy in the parser's output keeps its original
\* slippage.
C33_ClampedCopyReplacesOriginal ==
  \A run \in Runs :
    ClampedRun(run) =>
      LET original == run.parserOutput[1].strategy_dsl
          copy == ClampedCopy(original, config)
      IN /\ original.controls.max_slippage_bps > config.max_slippage_bps_hard
         /\ copy # original
         /\ run.strategy = Some(copy)
         /\ run.encryptedIntent # Null
         /\ Decipher(wf.key, FromHex(run.encryptedIntent[1].iv),
                     FromHex(run.encryptedIntent[1].encrypted_payload)) = Stringify(copy)
         /\ run.checkerArg = Some(copy)
         /\ run.decrypted # Null => run.decrypted = Some(copy)
         /\ run.executorArg # Null => run.executorArg = Some(copy)
         /\ run.result # Null =>
              /\ Receipt(run).validated_strategy = copy
              /\ Receipt(run).status \in {"expired", "aborted", "executed"}

\* C33 witness: a run whose parser asked for more slippage than the hard maximum
\* was executed and returned.
C33_Witness ==
  \E run \in Runs :
    /\ ClampedRun(run)
    /\ run.executorArg # Null
    /\ run.result # Null
    /\ Receipt(run).status = "executed"
    /\ run.parserOutput[1].strategy_dsl.controls.max_slippage_bps
         > Receipt(run).validated_strategy.controls.max_slippage_bps

\* ---------------------------------------------------------------- C34
\* C34: one fetchWithPayment call sends at most two requests and calls signPayment
\* at most once; it has called signPayment, with the tool cost, exactly when its
\* first response was 402; a second request is only sent after signing and carries
\* the payment's transaction reference as proof; a retry answered with 402 ends
\* the call with the retry-failure error, without a further payment or request.
C34_AtMostOnePaymentPerCall ==
  \A call \in Calls :
    /\ Len(call.requests) <= 2
    /\ Len(call.signArgs) <= 1
    /\ (call.signArgs # <<>>) =
         (call.firstResponse # Null /\ call.firstResponse[1].status = PaymentRequired)
    /\ call.signArgs # <<>> => call.signArgs = <<call.toolCostUsdc>>
    /\ call.requests[1].paymentTx = Null
    /\ Len(call.requests) = 2 =>
         /\ call.txHash # Null
         /\ call.requests[2] = [url |-> call.toolUrl, paymentTx |-> call.txHash]
    /\ (call.retryResponse # Null /\ call.retryResponse[1].status = PaymentRequired) =>
         /\ call.pc = "threw"
         /\ call.error[1][1] = "Paid tool retry failed"
         /\ Len(call.requests) = 2

\* C34 witness: a call was answered 402 twice and has thrown after one payment.
C34_Witness ==
  \E call \in Calls :
    /\ call.retryResponse # Null
    /\ call.retryResponse[1].status = PaymentRequired
    /\ call.signArgs = <<call.toolCostUsdc>>
    /\ call.pc = "threw"

\* ---------------------------------------------------------------- C35
\* The number of ledger entries that are the record of call c.
RecordsOf(client, c) ==
  Cardinality({i \in 1..Len(client.records) :
                 client.calls[c].record = Some(client.records[i])})

\* C35: over every step of every interleaving of fetchWithPayment calls, the
\* ledger never gets shorter, the records it held keep their position and their
\* tool, cost, transaction reference and status, and every call has at most one
\* record in it.
C35_LedgerAppendOnly ==
  [][/\ Len(pay'.records) >= Len(pay.records)
     /\ Len(pay'.records) <= Len(pay.records) + 1
     /\ SubSeq(pay'.records, 1, Len(pay.records)) = pay.records
     /\ \A i \in 1..Len(pay.records) : LedgerValues(pay')[i] = LedgerValues(pay)[i]
     /\ \A c \in 1..Len(pay'.calls) : RecordsOf(pay', c) <= 1
     /\ Len(pay'.records) <= Len(pay'.calls)]_vars

\* C35 witness: the ledger holds a failed record followed by a successful one, of
\* two calls.
C35_Witness ==
  /\ Len(pay.records) = 2
  /\ LedgerValues(pay)[1].status = "failed"
  /\ LedgerValues(pay)[2].status = "success"
  /\ \A c \in 1..Len(pay.calls) : pay.calls[c].pc \in {"returned", "threw"}

\* ---------------------------------------------------------------- C36
\* pending without its first entry equal to amount.
RECURSIVE RemoveOne(_, _)
RemoveOne(pending, amount) ==
  IF pending = <<>> THEN <<>>
  ELSE IF Head(pending) = amount THEN Tail(pending)
  ELSE <<Head(pending)>> \o RemoveOne(Tail(pending), amount)

\* Every recordSpend(c) of calls uses up an earlier shouldPurchase(tool, c) that
\* returned true and that no other recordSpend has used; pending holds the
\* approved amounts not used yet.
RECURSIVE EveryDebitApproved(_, _)
EveryDebitApproved(calls, pending) ==
  IF calls = <<>> THEN TRUE
  ELSE LET call == Head(calls)
       IN IF call.op = "shouldPurchase"
          THEN EveryDebitApproved(Tail(calls),
                 IF call.returned = Some(TRUE) THEN Append(pending, call.amount)
                 ELSE pending)
          ELSE /\ Includes(pending, call.amount)
               /\ EveryDebitApproved(Tail(calls), RemoveOne(pending, call.amount))

\* The same, with no recordSpend between an approval and its own recordSpend: a
\* debit makes every approval issued before it unusable.
RECURSIVE EveryDebitFreshlyApproved(_, _)
EveryDebitFreshlyApproved(calls, pending) ==
  IF calls = <<>> THEN TRUE
  ELSE LET call == Head(calls)
       IN IF call.op = "shouldPurchase"
          THEN EveryDebitFreshlyApproved(Tail(calls),
                 IF call.returned = Some(TRUE) THEN Append(pending, call.amount)
                 ELSE pending)
          ELSE /\ Includes(pending, call.amount)
               /\ EveryDebitFreshlyApproved(Tail(calls), <<>>)

\* C36 as stated: when every recordSpend(c) has its own earlier shouldPurchase(tool,
\* c) that returned true, the remaining budget is never negative, in whatever
\* order the decisions and the debits were made.
C36_ApprovedDebitsKeepBudget ==
  EveryDebitApproved(engineLog.calls, <<>>) => getBudgetRemaining(engine) >= 0

\* C36 amended: when moreover no recordSpend lies between an approval and the
\* recordSpend it belongs to, the remaining budget (of an engine constructed with
\* a non-negative budget) is never negative.
C36_FreshlyApprovedDebitsKeepBudget ==
  EveryDebitFreshlyApproved(engineLog.calls, <<>>) => getBudgetRemaining(engine) >= 0

\* C36 witness: two purchases were approved and debited one after the other, the
\* second using up the budget.
C36_Witness ==
  /\ EveryDebitFreshlyApproved(engineLog.calls, <<>>)
  /\ Len(EngineCalls("recordSpend")) = 2
  /\ engineLog.initialBudget > 0
  /\ getBudgetRemaining(engine) = 0

\* ---------------------------------------------------------------- C31
\* run executed alone, from its call to its end, on a workflow with the same
\* configuration, for a parser that answers parserOutput and a condition checker
\* that answers met.
SoloRun(prompt, parserOutput, met) ==
  LET parsed == runAfterParse(runCall(prompt), config, WorkflowKey, 1, 0,
                              [kind |-> "ok", body |-> Some(parserOutput)])
      checked == IF parsed.pc = "checking"
                 THEN runAfterConditions(parsed, config, WorkflowKey, 2, 0, met)
                 ELSE parsed
  IN IF checked.pc = "executing" THEN runAfterExecute(checked, 0) ELSE checked

\* What the claim calls the outcome of a returned run.
Outcome(run) ==
  [status |-> Receipt(run).status,
   conditions_met |-> Receipt(run).conditions_met,
   total_spend_usdc |-> Receipt(run).total_spend_usdc,
   validated_strategy |-> Receipt(run).validated_strategy,
   has_tx_hash |-> Receipt(run).execution_tx_hash # Null]

TerminalStatuses == {"executed", "failed", "expired"}

\* The status startMonitoring gives a trade whose run has settled.
SettledStatus(run) ==
  IF run.pc = "threw" THEN "failed"
  ELSE IF Receipt(run).status = "executed" THEN "executed"
  ELSE IF Receipt(run).status = "aborted" THEN "failed"
  ELSE "expired"

\* A trade whose run is under way is monitoring (or was cancelled); one whose run
\* has settled has the status its receipt, or its throw, maps to.
StatusFollowsRun ==
  \A id \in DOMAIN trades :
    IF Finished(trades[id].run)
    THEN trades[id].status = SettledStatus(trades[id].run)
    ELSE trades[id].status \in {"monitoring", "expired"}

\* Some accepted trade's background run is still under way.
RunUnderWay == \E id \in DOMAIN trades : ~Finished(trades[id].run)

\* Every accepted trade's run is over and the trade is executed, failed or expired.
AllTradesSettled ==
  \A id \in DOMAIN trades :
    Finished(trades[id].run) /\ trades[id].status \in TerminalStatuses

\* C39: when the awaited parser request, condition check and execution of every
\* background run settle, every trade submitTrade accepted reaches executed,
\* failed or expired with its run over: executed for an executed receipt, failed
\* for an aborted receipt or a throw, expired for an expired receipt; no trade
\* stays pending or monitoring forever.  Trades are never removed and a settled
\* run stays settled, so a moment at which all accepted trades are settled comes
\* after every moment at which one is not exactly when each trade settles.
C39_EveryTradeSettles ==
  /\ []StatusFollowsRun
  /\ RunUnderWay ~> AllTradesSettled

\* C39 witness: of two trades one failed because its run threw and the other was
\* executed.
C39_Witness ==
  \E a, b \in DOMAIN trades :
    /\ trades[a].run.pc = "threw"
    /\ trades[a].status = "failed"
    /\ trades[b].run.pc = "returned"
    /\ trades[b].status = "executed"

============================================================================
